---- MODULE Spec2Model ----
(***************************************************************************)
(* Model of the floating-calibration pipeline of sensor-web                *)
(* (src/lib/calibration/floatingCalibration.ts).                           *)
(*                                                                         *)
(* applyFloatingCalibration is one synchronous call.  It is modelled as a  *)
(* state machine whose steps are the parts of the call: the GPS pre-pass   *)
(* (lines 135-239), one step per iteration of the main loop (lines         *)
(* 242-703) and the return (lines 705-757).  A TypeError raised by the     *)
(* code is the terminal position pc = "threw".                             *)
(*                                                                         *)
(* Numbers.  The code computes in IEEE doubles; the model computes in      *)
(* fixed point with SCALE units per 1.0 (m/s^2, m/s, rad, degrees of       *)
(* heading, EMA coefficients) and floor rounding.  Latitudes and           *)
(* longitudes are in SCALE-ths of a degree, timestamps in milliseconds.    *)
(* Array indices are the code's 0-based indices; At(s, i) reads s[i].      *)
(***************************************************************************)
EXTENDS Integers, Sequences, FiniteSets, TLC

\* ------------------------------------------------------------------------
\* Bounds of the model
\* ------------------------------------------------------------------------

\* longest session (number of accelerometer samples) explored
MaxLen == 121

\* ------------------------------------------------------------------------
\* Fixed-point arithmetic
\* ------------------------------------------------------------------------

\* units per 1.0 of a JavaScript number
SCALE == 1000

Abs(a) == IF a < 0 THEN -a ELSE a

Min(a, b) == IF a < b THEN a ELSE b

Max(a, b) == IF a > b THEN a ELSE b

\* floor(a * b / c) for c > 0 without forming a * b
MulDiv(a, b, c) == (a \div c) * b + ((a % c) * b) \div c

\* product of two fixed-point numbers
Mul(a, b) == MulDiv(a, b, SCALE)

\* quotient of two fixed-point numbers, b > 0
Div(a, b) == (a * SCALE) \div b

RECURSIVE SqrtSearch(_, _, _)
\* the r with lo <= r < hi and r*r <= n < (r+1)*(r+1)
SqrtSearch(n, lo, hi) ==
    IF hi - lo <= 1 THEN lo
    ELSE LET mid == (lo + hi) \div 2
         IN  IF mid * mid <= n THEN SqrtSearch(n, mid, hi)
                               ELSE SqrtSearch(n, lo, mid)

\* Math.sqrt on a non-negative integer: floor of the square root
Sqrt(n) == SqrtSearch(n, 0, Min(n + 1, 46341))

\* Math.sqrt(x**2 + y**2 + z**2)
Magnitude(v) == Sqrt(v.x * v.x + v.y * v.y + v.z * v.z)

\* a * prev + (1 - a) * x
Ema(a, prev, x) == (a * prev + (SCALE - a) * x) \div SCALE

\* 0-based read of a sequence
At(s, i) == s[i + 1]

Last(s) == s[Len(s)]

Vec(x, y, z) == [x |-> x, y |-> y, z |-> z]

ZeroVec == Vec(0, 0, 0)

\* ------------------------------------------------------------------------
\* Inputs: sessions the caller can pass
\* ------------------------------------------------------------------------

\* the defaults of the tuning parameters (alpha, observerAlpha, filterAlpha,
\* gpsSpeedAlpha, danDecay), in SCALE-ths
DefaultAlpha == 950

DefaultObserverAlpha == 50

\* the values of observerAlpha explored: the default and an even blend
ObserverAlphas == { DefaultObserverAlpha, SCALE \div 2 }

DefaultFilterAlpha == 50

DefaultGpsSpeedAlpha == 950

DefaultDanDecay == 950

\* a GPSData record; mph and kph are the device's conversions of mps
Fix(mps, lat, lng, timestamp) ==
    [mph |-> MulDiv(mps, 2237, 1000), kph |-> MulDiv(mps, 3600, 1000),
     mps |-> mps, lat |-> lat, lng |-> lng, timestamp |-> timestamp]

\* the gps arrays explored: none, a single fix, speeding up from the first
\* sample, standing then speeding up, cruising then braking, a fix followed by
\* a no-fix sample, and a drive along the equator (lat = 0)
GpsInputs ==
    { << >>,
      << Fix(0, 40000, -74000, 1000) >>,
      << Fix(0, 40000, -74000, 1000), Fix(10000, 40001, -74001, 2000) >>,
      << Fix(0, 40000, -74000, 1000), Fix(0, 40000, -74000, 2000),
         Fix(10000, 40001, -74001, 3000) >>,
      << Fix(12000, 40000, -74000, 1000), Fix(12000, 40002, -74002, 2000),
         Fix(2000, 40003, -74003, 3000) >>,
      << Fix(5000, 40000, -74000, 1000), Fix(5000, 0, 0, 2000) >>,
      << Fix(8000, 0, -74000, 1000), Fix(8000, 0, -74001, 2000) >> }

\* accelerometer sample k of a pattern: a phone lying flat and still, a phone
\* pushed along +x from sample 30 on, a tilted phone on a rough road, and a
\* sensor that reads 0 on every axis
AccelAt(pattern, k) ==
    CASE pattern = "flat"  -> Vec(0, 0, 9800)
      [] pattern = "push"  -> IF k < 30 THEN Vec(0, 0, 9800) ELSE Vec(3000, 0, 9800)
      [] pattern = "rough" -> IF k % 2 = 0 THEN Vec(1500, -300, 9500)
                                           ELSE Vec(900, 400, 9900)
      [] pattern = "zero"  -> Vec(0, 0, 0)

\* gyroscope sample k of a pattern (rad/s)
GyroAt(pattern, k) ==
    CASE pattern = "still" -> Vec(0, 0, 0)
      [] pattern = "turn"  -> IF k % 3 = 0 THEN Vec(100, -200, 1500)
                                           ELSE Vec(0, 300, 12500)

\* magnetometer sample k of a pattern: x is the compass heading in degrees
MagAt(pattern, k) ==
    CASE pattern = "north" -> Vec(0, 0, 0)
      [] pattern = "wrap"  -> Vec(((350 + 7 * k) % 360) * SCALE, 0, 0)

\* the time of sample k, in milliseconds
TimeAt(k) == 5000 + 16 * k

AccelSamples(pattern, n) ==
    [k \in 1..n |-> AccelAt(pattern, k - 1) @@ [timestamp |-> TimeAt(k - 1)]]

GyroSamples(pattern, n) ==
    [k \in 1..n |-> GyroAt(pattern, k - 1) @@ [timestamp |-> TimeAt(k - 1)]]

MagSamples(pattern, n) ==
    [k \in 1..n |-> MagAt(pattern, k - 1) @@ [timestamp |-> TimeAt(k - 1)]]

\* the sensor recordings explored, for n accelerometer samples: the pattern of
\* each sensor and the lengths of the gyro and mag arrays
Rigs(n) ==
    { [accel |-> "flat",  gyro |-> "still", gyroLen |-> n, mag |-> "north", magLen |-> 0],
      [accel |-> "push",  gyro |-> "turn",  gyroLen |-> n, mag |-> "wrap",  magLen |-> n],
      [accel |-> "rough", gyro |-> "turn",  gyroLen |-> n, mag |-> "wrap",  magLen |-> n \div 2],
      [accel |-> "rough", gyro |-> "still", gyroLen |-> n - 1, mag |-> "north", magLen |-> n],
      [accel |-> "zero",  gyro |-> "still", gyroLen |-> n, mag |-> "north", magLen |-> n] }

\* the session lengths explored
Lengths == {1, 60, 61, MaxLen}

\* ------------------------------------------------------------------------
\* GPS pre-pass (pure functions of the inputs)
\* ------------------------------------------------------------------------

ZeroFix == [mph |-> 0, kph |-> 0, mps |-> 0, lat |-> 0, lng |-> 0, timestamp |-> 0]

\* interpolateGPSData(gpsData, targetLength)
interpolateGPSData(gps, targetLength) ==
    IF Len(gps) = 0 THEN [k \in 1..targetLength |-> ZeroFix]
    ELSE IF Len(gps) = targetLength THEN gps
    ELSE [k \in 1..targetLength |->
            LET i         == k - 1
                \* gpsRatio = (i / targetLength) * gps.length
                prevIndex == (i * Len(gps)) \div targetLength
                rem       == (i * Len(gps)) % targetLength
                nextIndex == Min(prevIndex + 1, Len(gps) - 1)
                prevGPS   == At(gps, prevIndex)
                nextGPS   == At(gps, nextIndex)
                \* prev + (next - prev) * ratio, ratio = rem / targetLength
                Blend(a, b) == a + MulDiv(b - a, rem, targetLength)
            IN  IF prevIndex = nextIndex THEN prevGPS
                ELSE [mph |-> Blend(prevGPS.mph, nextGPS.mph),
                      kph |-> Blend(prevGPS.kph, nextGPS.kph),
                      mps |-> Blend(prevGPS.mps, nextGPS.mps),
                      lat |-> Blend(prevGPS.lat, nextGPS.lat),
                      lng |-> Blend(prevGPS.lng, nextGPS.lng),
                      timestamp |-> i]]

RECURSIVE recursiveSmoothedMPS(_, _)
\* the value of recursiveSmoothedMPS after iteration i of the loop of line 140
recursiveSmoothedMPS(gps, i) ==
    IF i = 0 THEN At(gps, 0).mps
    ELSE LET p == recursiveSmoothedMPS(gps, i - 1)
         IN  p + (At(gps, i).mps - p) \div 2

RECURSIVE smoothedMPS(_, _, _)
\* the value of smoothedMPS after iteration i of the loop of line 161
smoothedMPS(gps, gpsSpeedAlpha, i) ==
    LET p == IF i = 0 THEN At(gps, 0).mps ELSE smoothedMPS(gps, gpsSpeedAlpha, i - 1)
    IN  Ema(gpsSpeedAlpha, p, At(gps, i).mps)

\* the GPS array of lines 146-153 and 166-173: its speed replaced by speeds[k]
WithSpeed(gps, speeds) ==
    [k \in 1..Len(gps) |->
        [mph |-> MulDiv(speeds[k], 2237, 1000),
         kph |-> MulDiv(speeds[k], 3600, 1000),
         mps |-> speeds[k],
         lat |-> gps[k].lat, lng |-> gps[k].lng, timestamp |-> gps[k].timestamp]]

smoothedRawGPS(gps) ==
    WithSpeed(gps, [k \in 1..Len(gps) |-> recursiveSmoothedMPS(gps, k - 1)])

filteredRawGPS(gps, gpsSpeedAlpha) ==
    WithSpeed(gps, [k \in 1..Len(gps) |-> smoothedMPS(gps, gpsSpeedAlpha, k - 1)])

\* gpsDeltaTimeArray: seconds between consecutive fixes
gpsDeltaTimeArray(gps) ==
    [k \in 1..Len(gps) |->
        IF k > 1 THEN MulDiv(gps[k].timestamp - gps[k - 1].timestamp, SCALE, 1000) ELSE 0]

\* gpsTimestampArray: the fixes' timestamps in seconds
gpsTimestampArray(gps) ==
    [k \in 1..Len(gps) |-> MulDiv(gps[k].timestamp, SCALE, 1000)]

\* index of the 1 Hz element shown at 60 Hz sample i (lines 191-192, 235-236)
clampedIndex(i, n, len) == Min((i * len) \div n, len - 1)

ACCEL_WINDOW == 30

SAMPLE_RATE == 60

MAX_BRAKING == 10800

MAX_ACCELERATION == 4900

\* the difference quotient of line 207-219 at sample i
gpsAccelAt(sm, i, n) ==
    IF i >= ACCEL_WINDOW /\ i < n - ACCEL_WINDOW
    THEN \* dt = 2 * ACCEL_WINDOW / SAMPLE_RATE
         ((At(sm, i + ACCEL_WINDOW).mps - At(sm, i - ACCEL_WINDOW).mps) * SAMPLE_RATE)
            \div (2 * ACCEL_WINDOW)
    ELSE IF i > 0
    THEN \* dt = 1 / SAMPLE_RATE
         (At(sm, i).mps - At(sm, i - 1).mps) * SAMPLE_RATE
    ELSE 0

\* a clamp with no upper limit
clampAccel_open(accel) == Max(-MAX_BRAKING, accel)

\* Math.max(-10.8, Math.min(4.9, accel))
clampAccel(accel) == Max(-MAX_BRAKING, Min(MAX_ACCELERATION, accel))

\* line 226: recursive smoothing of the clamped acceleration
smoothAccel(smoothedAccel, accel) == smoothedAccel + (accel - smoothedAccel) \div 2

\* ------------------------------------------------------------------------
\* The DAN histogram, src/lib/calibration/histogram.ts
\* ------------------------------------------------------------------------

NUM_BINS == 100

\* MAX_DAN = 4.0
MAX_DAN == 4000

\* 0.04 per bin
BIN_WIDTH == MAX_DAN \div NUM_BINS

\* the 0.001 the clamp stays below MAX_DAN
CLAMP_MARGIN == 1

\* Infinity, above every sample; -Infinity is its negation
Infinity == 1000000000

\* createHistogram()
createHistogram ==
    [bins |-> [b \in 0..(NUM_BINS - 1) |-> 0], totalSamples |-> 0,
     minDAN |-> Infinity, maxDAN |-> -Infinity]

\* createPersistentHistogram()
createPersistentHistogram == createHistogram @@ [sessionCount |-> 0]

\* a clamp to the whole range [0, MAX_DAN]
clampDAN_whole(roadDAN) == Max(0, Min(roadDAN, MAX_DAN))

\* Math.max(0, Math.min(roadDAN, MAX_DAN - 0.001))
clampDAN(roadDAN) == Max(0, Min(roadDAN, MAX_DAN - CLAMP_MARGIN))

\* the floor of line 27 without the clamp of line 26
binIndexOf_unclamped(roadDAN) == roadDAN \div BIN_WIDTH

\* Math.floor(clamped / BIN_WIDTH)
binIndexOf(roadDAN) == clampDAN(roadDAN) \div BIN_WIDTH

\* bins[binIndex]++ : an index outside the array would add a property to the
\* array object and leave the 100 bins as they are
incremented(bins, binIndex) ==
    IF binIndex \in DOMAIN bins THEN [bins EXCEPT ![binIndex] = @ + 1] ELSE bins

\* addSample(histogram, roadDAN): the histogram after the call
addSample(histogram, roadDAN) ==
    [histogram EXCEPT !.bins = incremented(@, binIndexOf(roadDAN)),
                      !.totalSamples = @ + 1,
                      !.minDAN = Min(@, roadDAN),
                      !.maxDAN = Max(@, roadDAN)]

RECURSIVE samplesBelow(_, _)
\* lines 42-45: the sum of the bins below targetBin
samplesBelow(bins, targetBin) ==
    IF targetBin = 0 THEN 0
    ELSE bins[targetBin - 1] + samplesBelow(bins, targetBin - 1)

\* Math.round(x) for x = num / den >= 0: floor(x + 1/2)
Round(num, den) == (2 * num + den) \div (2 * den)

\* The pairs << totalSamples, 2 * samplesBelow >>, for totalSamples up to
\* 400, where the exact percentage ends in one half and the double product
\* (samplesBelow / totalSamples) * 100 of line 50 falls below it: 11.5 / 20
\* is the double 0.575 and 0.575 * 100 is 57.49999999999999.  For every
\* other pair the double product rounds as the exact quotient does.
ProductBelowHalf ==
    { <<20, 23>>, <<40, 46>>, <<60, 69>>, <<80, 92>>, <<100, 29>>,
      <<100, 57>>, <<100, 113>>, <<100, 115>>, <<120, 138>>, <<140, 161>>,
      <<160, 184>>, <<180, 207>>, <<200, 58>>, <<200, 114>>, <<200, 226>>,
      <<200, 230>>, <<220, 253>>, <<240, 276>>, <<260, 299>>, <<280, 322>>,
      <<300, 87>>, <<300, 171>>, <<300, 339>>, <<300, 345>>, <<320, 368>>,
      <<340, 391>>, <<360, 414>>, <<380, 437>>, <<400, 116>>, <<400, 228>>,
      <<400, 452>>, <<400, 460>> }

\* line 50: Math.round((samplesBelow / totalSamples) * 100), with twice the
\* value of samplesBelow, which ends in a half when the bin count is odd
roundedPercent(twice, totalSamples) ==
    IF << totalSamples, twice >> \in ProductBelowHalf
    THEN Round(twice * 100, 2 * totalSamples) - 1
    ELSE Round(twice * 100, 2 * totalSamples)

\* getPercentile with half of the own bin taken away instead of added
getPercentile_lessHalf(histogram, roadDAN) ==
    IF histogram.totalSamples = 0 THEN 50
    ELSE LET targetBin == binIndexOf(roadDAN)
             twice == 2 * samplesBelow(histogram.bins, targetBin)
                         - histogram.bins[targetBin]
         IN  roundedPercent(twice, histogram.totalSamples)

\* getPercentile(histogram, roadDAN)
getPercentile(histogram, roadDAN) ==
    IF histogram.totalSamples = 0 THEN 50
    ELSE LET targetBin == binIndexOf(roadDAN)
             twice == 2 * samplesBelow(histogram.bins, targetBin)
                         + histogram.bins[targetBin]
         IN  roundedPercent(twice, histogram.totalSamples)

\* the lower edge of the bin instead of its midpoint
binMidpoint_edge(b) == b * BIN_WIDTH

\* (i + 0.5) * BIN_WIDTH
binMidpoint(b) == b * BIN_WIDTH + BIN_WIDTH \div 2

RECURSIVE findFrom(_, _, _, _)
\* lines 68-75 from bin b on, with the count accumulated below it
findFrom(histogram, targetPercentile, b, cumulative) ==
    IF b >= NUM_BINS THEN MAX_DAN
    ELSE IF (cumulative + histogram.bins[b]) * 100
               >= targetPercentile * histogram.totalSamples
    THEN binMidpoint(b)
    ELSE findFrom(histogram, targetPercentile, b + 1, cumulative + histogram.bins[b])

\* findPercentileValue(targetPercentile) of getStats
findPercentileValue(histogram, targetPercentile) ==
    findFrom(histogram, targetPercentile, 0, 0)

\* getStats(histogram)
getStats(histogram) ==
    IF histogram.totalSamples = 0
    THEN [p10 |-> 0, p25 |-> 0, p50 |-> 0, p75 |-> 0, p90 |-> 0]
    ELSE [p10 |-> findPercentileValue(histogram, 10),
          p25 |-> findPercentileValue(histogram, 25),
          p50 |-> findPercentileValue(histogram, 50),
          p75 |-> findPercentileValue(histogram, 75),
          p90 |-> findPercentileValue(histogram, 90)]

\* a merge that takes the new minDAN against the maxDAN of the source
mergeHistogram_crossed(target, source) ==
    [target EXCEPT !.bins = [b \in DOMAIN @ |-> @[b] + source.bins[b]],
                   !.totalSamples = @ + source.totalSamples,
                   !.minDAN = Min(@, source.maxDAN),
                   !.maxDAN = Max(@, source.maxDAN),
                   !.sessionCount = @ + 1]

\* a merge that replaces minDAN and maxDAN by those of the source
mergeHistogram_replaced(target, source) ==
    [target EXCEPT !.bins = [b \in DOMAIN @ |-> @[b] + source.bins[b]],
                   !.totalSamples = @ + source.totalSamples,
                   !.minDAN = source.minDAN,
                   !.maxDAN = source.maxDAN,
                   !.sessionCount = @ + 1]

\* mergeHistogram(target, source): the target after the call
mergeHistogram(target, source) ==
    [target EXCEPT !.bins = [b \in DOMAIN @ |-> @[b] + source.bins[b]],
                   !.totalSamples = @ + source.totalSamples,
                   !.minDAN = Min(@, source.minDAN),
                   !.maxDAN = Max(@, source.maxDAN),
                   !.sessionCount = @ + 1]

\* A session's roadDAN values, in the order they are added: count values
\* from first on, step apart.
sampleOf(f, k) == f.first + k * f.step

\* the sessions explored: one sample in every bin, four and five samples
\* spread over the range, samples below 0 and above MAX_DAN, and samples next
\* to a bin edge and to the clamp
Feeds ==
    { [first |-> 0,    step |-> 40,   count |-> 100],
      [first |-> 0,    step |-> 1000, count |-> 4],
      [first |-> 0,    step |-> 800,  count |-> 5],
      [first |-> -500, step |-> 4500, count |-> 3],
      [first |-> 39,   step |-> 1,    count |-> 2],
      [first |-> 3998, step |-> 1,    count |-> 3] }

\* sessions merged into one cumulative histogram
MaxSessions == 2

RECURSIVE filled(_, _, _)
\* the histogram after addSample of the samples of f from the k-th on
filled(histogram, f, k) ==
    IF k >= f.count THEN histogram
    ELSE filled(addSample(histogram, sampleOf(f, k)), f, k + 1)

\* JSON.stringify of a number: Infinity and -Infinity are written as null,
\* which Math.min and Math.max read back as 0
jsonNumber(x) == IF x = Infinity \/ x = -Infinity THEN 0 ELSE x

\* JSON.parse(JSON.stringify(histogram)): what saveHistogram stores and
\* loadHistogram returns
stringified(histogram) ==
    [histogram EXCEPT !.minDAN = jsonNumber(@), !.maxDAN = jsonNumber(@)]

\* the histograms of the recorded sessions with at most five segments
Recordings ==
    { filled(createHistogram, f, 0) : f \in { g \in Feeds : g.count <= 5 } }

\* the session IDs and the browser tabs
SessionIds == { "s1", "s2", "s3" }
Tabs == { "a", "b" }

\* ------------------------------------------------------------------------
\* State of one call of applyFloatingCalibration
\* ------------------------------------------------------------------------

VARIABLES
    \* the arguments
    accelData, gyroData, magData, gpsData,
    alpha, observerAlpha, filterAlpha, gpsSpeedAlpha, danDecay,
    \* position: "start", "gpsAccel", "loop", "returned", "threw"
    pc,
    \* the index of the loop being run (lines 206 and 242)
    i,
    \* the smoothing state of the GPS acceleration loop
    smoothedAccel,
    \* the 60 Hz arrays of the GPS pre-pass
    steppedRawGPS, interpolatedGPS, interpolatedGPSSmoothed, interpolatedGPSFiltered,
    interpolatedRawGPSAccel, interpolatedGPSDeltaTime, interpolatedGPSTimestamp,
    \* the tracker's state
    gravity, forward, prevForward, totalForwardUpdates,
    \* the filters: accelFiltered, gyroFiltered, filteredLinearAccel, filteredGyro
    \* (vectors), filteredMagHeading, prevMagHeading, prevHeading,
    \* magHeadingUnwrapped, integratedHeading_accel, integratedHeading_gyro
    filters,
    \* the CalibrationResult under construction
    result

VARIABLES
    \* the histogram of the session on the calibration page
    sessionHistogram,
    \* the cumulative histogram the sessions are merged into
    cumulative,
    \* the roadDAN values of the session, and how many of them have been added
    feed, fed

histograms == << sessionHistogram, cumulative, feed, fed >>

VARIABLES
    \* localStorage: under each key no item (<< >>) or one item (<< value >>)
    localStorage,
    \* per tab: the page's sessionId and sessionHistogram, the position of
    \* its merge effect, and the effect's locals
    tab,
    \* per session ID: how many times its samples are counted in the
    \* histogram that localStorage holds
    merged

browser == << localStorage, tab, merged >>

VARIABLES
    \* the potholes of the database: per cell no entry (<< >>) or one entry
    potholes,
    \* per cell: the clean passes recorded since the last hit, -1 before the
    \* first hit
    sinceHit

database == << potholes, sinceHit >>

VARIABLES
    \* the calls of applyFloatingCalibration that have ended, in order: the
    \* arguments of each and its outcome
    earlier,
    \* the four arrays the caller passed to the call in progress
    given

callers == << earlier, given >>

inputs == << accelData, gyroData, magData, gpsData,
             alpha, observerAlpha, filterAlpha, gpsSpeedAlpha, danDecay >>

prepass == << smoothedAccel, steppedRawGPS, interpolatedGPS, interpolatedGPSSmoothed,
              interpolatedGPSFiltered, interpolatedRawGPSAccel,
              interpolatedGPSDeltaTime, interpolatedGPSTimestamp >>

tracker == << gravity, forward, prevForward, totalForwardUpdates, filters >>

calibration == << inputs, pc, i, prepass, tracker, result >>

\* what a call of applyFloatingCalibration leaves alone
beyondCalibration == << histograms, browser, database, callers >>

\* what the histogram engine leaves alone
beyondHistograms == << calibration, browser, database, callers >>

\* what the merge effect leaves alone
beyondBrowser == << calibration, histograms, database, callers >>

\* what the pothole database functions leave alone
beyondDatabase == << calibration, histograms, browser, callers >>

vars == << calibration, histograms, browser, database, callers >>

\* the per-sample arrays of CalibrationResult
ArrayFields ==
    { "transformed", "gravityHistory", "forwardHistory", "forwardChangeRate",
      "confidence", "gpsAccelDetected", "turningDetected", "forwardUpdateCount",
      "virtualForwardAccel", "virtualLateralAccel", "phoneStable",
      "vehicleStationary", "vehicleMoving", "magHeading", "gpsSpeedRaw",
      "gpsSpeedSmoothed", "gpsSpeedFiltered", "rawGPSAccel", "gpsDeltaTime",
      "gpsTimestamp", "accelLinearX_measured", "accelLinearY_measured",
      "accelLinearZ_measured", "accelY_measured", "accelY_fromGyro",
      "accelY_fromMag", "gyroZ_measured", "gyroZ_fromAccel", "gyroZ_fromMag",
      "heading_measured", "heading_fromAccel", "heading_fromGyro",
      "accelFilteredX", "accelFilteredY", "accelFilteredZ", "gyroFilteredX",
      "gyroFilteredY", "gyroFilteredZ", "gravityUpdating", "xPrimeFiltered",
      "yPrimeFiltered", "zPrimeFiltered", "danX", "roadDAN", "donX", "roadDON" }

\* the other fields of the result: the sample rate, the segment list and the
\* accumulators the loop keeps on the result object
ScalarFields ==
    { "actualSampleRate", "roadDANSegments", "danAccumulator", "danSampleCount",
      "donAccumulator", "donSampleCount" }

\* the result object of lines 53-105
EmptyResult ==
    [f \in ArrayFields \cup ScalarFields |->
        CASE f = "actualSampleRate" -> SAMPLE_RATE * SCALE
          [] f \in {"danAccumulator", "danSampleCount",
                    "donAccumulator", "donSampleCount"} -> 0
          [] OTHER -> << >>]

\* the filter state of lines 111-130
InitialFilters ==
    [accelFiltered |-> ZeroVec, gyroFiltered |-> ZeroVec,
     filteredLinearAccel |-> ZeroVec, filteredGyro |-> ZeroVec,
     filteredMagHeading |-> 0, prevMagHeading |-> 0, prevHeading |-> 0,
     magHeadingUnwrapped |-> 0, integratedHeading_accel |-> 0,
     integratedHeading_gyro |-> 0]

\* no session is counted in a histogram
NoneMerged == [id \in SessionIds |-> 0]

\* a tab that shows no session
ClosedTab ==
    [sessionId |-> "", sessionHistogram |-> << >>, pc |-> "idle",
     includedSessions |-> {}, cumulative |-> << >>, counted |-> NoneMerged,
     sessions |-> << >>]

\* an empty localStorage and no open page
NoBrowser ==
    /\ localStorage = [danHistogram |-> << >>, danHistogramSessions |-> << >>]
    /\ tab = [t \in Tabs |-> ClosedTab]
    /\ merged = NoneMerged

\* the map cells of the potholes
Cells == { "c1", "c2" }

\* an empty pothole database
NoCalls == earlier = << >> /\ given = << >>

NoDatabase ==
    /\ potholes = [geohash \in Cells |-> << >>]
    /\ sinceHit = [geohash \in Cells |-> -1]

\* no session histogram is being built
NoHistogram ==
    /\ sessionHistogram = createHistogram
    /\ cumulative = createPersistentHistogram
    /\ feed = [first |-> 0, step |-> 0, count |-> 0]
    /\ fed = 0

Init ==
    /\ \E n \in Lengths : \E rig \in Rigs(n) :
          /\ accelData = AccelSamples(rig.accel, n)
          /\ gyroData = GyroSamples(rig.gyro, rig.gyroLen)
          /\ magData = MagSamples(rig.mag, rig.magLen)
    /\ gpsData \in GpsInputs
    /\ alpha = DefaultAlpha
    /\ observerAlpha \in ObserverAlphas
    /\ filterAlpha = DefaultFilterAlpha
    /\ gpsSpeedAlpha = DefaultGpsSpeedAlpha
    /\ danDecay = DefaultDanDecay
    /\ pc = "start"
    /\ i = 0
    /\ smoothedAccel = 0
    /\ steppedRawGPS = << >>
    /\ interpolatedGPS = << >>
    /\ interpolatedGPSSmoothed = << >>
    /\ interpolatedGPSFiltered = << >>
    /\ interpolatedRawGPSAccel = << >>
    /\ interpolatedGPSDeltaTime = << >>
    /\ interpolatedGPSTimestamp = << >>
    /\ gravity = ZeroVec
    /\ forward = ZeroVec
    /\ prevForward = ZeroVec
    /\ totalForwardUpdates = 0
    /\ filters = InitialFilters
    /\ result = EmptyResult
    /\ NoHistogram
    /\ NoBrowser
    /\ NoDatabase
    /\ NoCalls

\* ------------------------------------------------------------------------
\* The GPS pre-pass, lines 135-239
\* ------------------------------------------------------------------------

\* line 193 reads gpsData[clampedIndex].mps; with an empty gpsData the index
\* is -1, the element undefined, and the read throws a TypeError
steppedThrows(accel, gps) == Len(accel) > 0 /\ Len(gps) = 0

\* lines 135-204: smoothing, stepping and interpolation of the GPS fixes
Prepare ==
    /\ pc = "start"
    /\ ~ steppedThrows(accelData, gpsData)
    /\ LET n == Len(accelData)
       IN  /\ steppedRawGPS' =
                 [k \in 1..n |-> At(gpsData, clampedIndex(k - 1, n, Len(gpsData))).mps]
           /\ interpolatedGPS' = interpolateGPSData(gpsData, n)
           /\ interpolatedGPSSmoothed' = interpolateGPSData(smoothedRawGPS(gpsData), n)
           /\ interpolatedGPSFiltered' =
                 interpolateGPSData(filteredRawGPS(gpsData, gpsSpeedAlpha), n)
    /\ pc' = "gpsAccel"
    /\ UNCHANGED << beyondCalibration, inputs, i, smoothedAccel, interpolatedRawGPSAccel,
                    interpolatedGPSDeltaTime, interpolatedGPSTimestamp, tracker, result >>

\* iteration i of the GPS acceleration loop, lines 206-229
GpsAccelStep ==
    /\ pc = "gpsAccel"
    /\ i < Len(accelData)
    /\ LET accel == clampAccel(gpsAccelAt(interpolatedGPSSmoothed, i, Len(accelData)))
           next  == smoothAccel(smoothedAccel, accel)
       IN  /\ smoothedAccel' = next
           /\ interpolatedRawGPSAccel' = Append(interpolatedRawGPSAccel, next)
    /\ i' = i + 1
    /\ UNCHANGED << beyondCalibration, inputs, pc, steppedRawGPS, interpolatedGPS, interpolatedGPSSmoothed,
                    interpolatedGPSFiltered, interpolatedGPSDeltaTime,
                    interpolatedGPSTimestamp, tracker, result >>

\* lines 231-239: the 1 Hz timing arrays stepped to 60 Hz; the main loop starts
GpsAccelDone ==
    /\ pc = "gpsAccel"
    /\ i >= Len(accelData)
    /\ LET n == Len(accelData)
       IN  /\ interpolatedGPSDeltaTime' =
                 [k \in 1..n |-> At(gpsDeltaTimeArray(gpsData),
                                    clampedIndex(k - 1, n, Len(gpsData)))]
           /\ interpolatedGPSTimestamp' =
                 [k \in 1..n |-> At(gpsTimestampArray(gpsData),
                                    clampedIndex(k - 1, n, Len(gpsData)))]
    /\ pc' = "loop"
    /\ i' = 0
    /\ UNCHANGED << beyondCalibration, inputs, smoothedAccel, steppedRawGPS, interpolatedGPS,
                    interpolatedGPSSmoothed, interpolatedGPSFiltered,
                    interpolatedRawGPSAccel, tracker, result >>

PrepareThrows ==
    /\ pc = "start"
    /\ steppedThrows(accelData, gpsData)
    /\ pc' = "threw"
    /\ UNCHANGED << beyondCalibration, inputs, i, prepass, tracker, result >>

\* ------------------------------------------------------------------------
\* The steps of one iteration of the main loop, lines 242-703
\* ------------------------------------------------------------------------

SIGNIFICANT_ACCEL == 200

MIN_FORWARD_MAG == 10

MIN_DIRECTION_MAG == 100

GRAVITY_FULL == 9800

FORWARD_FULL == 500

SEGMENT_SAMPLES == 60

DON_DECAY == 950

PI == 3142

VecEma(a, prev, x) ==
    Vec(Ema(a, prev.x, x.x), Ema(a, prev.y, x.y), Ema(a, prev.z, x.z))

\* observerAlpha * x + (1 - observerAlpha) * prev
ObserverEma(a, x, prev) == (a * x + (SCALE - a) * prev) \div SCALE

VecObserverEma(a, x, prev) ==
    Vec(ObserverEma(a, x.x, prev.x), ObserverEma(a, x.y, prev.y),
        ObserverEma(a, x.z, prev.z))

Dot(a, b) == (a.x * b.x + a.y * b.y + a.z * b.z) \div SCALE

\* v / mag on each axis
Normalized(v, mag) == Vec(Div(v.x, mag), Div(v.y, mag), Div(v.z, mag))

\* gyroData[i] || {x: 0, y: 0, z: 0}
gyroOrZero(gyro, k) == IF k < Len(gyro) THEN At(gyro, k) ELSE ZeroVec

\* an absent magnetometer read as a heading of one degree
magOrZero_default(mag, k) ==
    LET magIndex == Min(k, Len(mag) - 1)
    IN  IF magIndex >= 0 THEN At(mag, magIndex) ELSE Vec(SCALE, 0, 0)

\* magData[Math.min(i, magData.length - 1)] || {x: 0, y: 0, z: 0}
magOrZero(mag, k) ==
    LET magIndex == Min(k, Len(mag) - 1)
    IN  IF magIndex >= 0 THEN At(mag, magIndex) ELSE ZeroVec

\* STEP 1: Math.abs(virtualForwardAccel) > 0.2
significantAccel(virtualForwardAccel) == Abs(virtualForwardAccel) > SIGNIFICANT_ACCEL

\* a gravity filter that is not gated by the GPS acceleration
gravityTracking_ungated(g, significant, a, accelFiltered) == VecEma(a, g, accelFiltered)

\* STEP 2: gravity after the sample
gravityTracking(g, significant, a, accelFiltered) ==
    IF ~ significant THEN VecEma(a, g, accelFiltered) ELSE g

\* a learning step that takes the linear acceleration unsigned
forwardBlend_unsigned(f, virtualForwardAccel, a, linearAccel) ==
    Vec((a * f.x + (SCALE - a) * linearAccel.x) \div SCALE,
        (a * f.y + (SCALE - a) * linearAccel.y) \div SCALE,
        (a * f.z + (SCALE - a) * linearAccel.z) \div SCALE)

\* STEP 8, lines 515-518: forward blended with the signed linear acceleration
forwardBlend(f, virtualForwardAccel, a, linearAccel) ==
    LET sign == IF virtualForwardAccel > 0 THEN 1 ELSE -1
    IN  Vec((a * f.x + (SCALE - a) * linearAccel.x * sign) \div SCALE,
            (a * f.y + (SCALE - a) * linearAccel.y * sign) \div SCALE,
            (a * f.z + (SCALE - a) * linearAccel.z * sign) \div SCALE)

\* STEP 8: forward after the learning step of the sample
forwardLearning(f, significant, virtualForwardAccel, a, linearAccel) ==
    IF significant
    THEN LET acc == forwardBlend(f, virtualForwardAccel, a, linearAccel)
             forwardMag == Magnitude(acc)
         IN  IF forwardMag > MIN_FORWARD_MAG THEN Normalized(acc, forwardMag) ELSE acc
    ELSE f

\* a learning counter that counts every sample
forwardUpdates_ungated(total, significant) == total + 1

\* STEP 8: totalForwardUpdates after the sample
forwardUpdates(total, significant) == IF significant THEN total + 1 ELSE total

\* STEP 9: forward after orthogonalization against gravity
orthogonalize(f, g, total) ==
    LET gravityMag == Magnitude(g)
    IN  IF gravityMag > MIN_DIRECTION_MAG /\ total > 0
        THEN LET gravityNorm == Normalized(g, gravityMag)
                 dot == Dot(f, gravityNorm)
             IN  Vec(f.x - Mul(dot, gravityNorm.x), f.y - Mul(dot, gravityNorm.y),
                     f.z - Mul(dot, gravityNorm.z))
        ELSE f

\* STEP 10: confidence
confidenceOf(g, f) ==
    LET gravityConfidence == Min(SCALE, Div(Magnitude(g), GRAVITY_FULL))
        forwardConfidence == Min(SCALE, Div(Magnitude(f), FORWARD_FULL))
    IN  (gravityConfidence + forwardConfidence) \div 2

\* a down axis that is normalised whenever gravity is not exactly 0
downOf_lowered(g) ==
    LET gravityNorm == Magnitude(g)
    IN  IF gravityNorm > 0 THEN Normalized(g, gravityNorm) ELSE Vec(0, 0, SCALE)

\* STEP 11: the down axis of the frame
downOf(g) ==
    LET gravityNorm == Magnitude(g)
    IN  IF gravityNorm > MIN_DIRECTION_MAG THEN Normalized(g, gravityNorm)
                                           ELSE Vec(0, 0, SCALE)

\* STEP 11: the forward axis of the frame
forwardDirOf(f) ==
    LET forwardNorm == Magnitude(f)
    IN  IF forwardNorm > MIN_DIRECTION_MAG THEN Normalized(f, forwardNorm)
                                           ELSE Vec(SCALE, 0, 0)

\* STEP 11: lateral = forward x down
lateralOf(forwardDir, down) ==
    Vec(Mul(forwardDir.y, down.z) - Mul(forwardDir.z, down.y),
        Mul(forwardDir.z, down.x) - Mul(forwardDir.x, down.z),
        Mul(forwardDir.x, down.y) - Mul(forwardDir.y, down.x))

\* STEP 11: linear acceleration in the vehicle frame
transformedOf(linearAccel, forwardDir, lateral, down, timestamp) ==
    [x |-> Dot(linearAccel, forwardDir), y |-> Dot(linearAccel, lateral),
     z |-> Dot(linearAccel, down), timestamp |-> timestamp]

\* the EMA of the transformed signal, lines 605-616
primeFiltered(k, a, history, x) ==
    IF k = 0 THEN x ELSE Ema(a, At(history, k - 1), x)

\* DAN and DON, lines 618-631 and 665-679: the decayed root mean square of
\* the deviation of a raw sample from its filtered value.  Squares are in
\* SCALE * SCALE units.
decayedRms(k, decay, history, raw, filtered) ==
    LET dev == Vec(raw.x - filtered.x, raw.y - filtered.y, raw.z - filtered.z)
        deviationMagnitude == Magnitude(dev)
        deviationSquared   == deviationMagnitude * deviationMagnitude
    IN  IF k = 0 THEN Sqrt(deviationSquared)
        ELSE LET prev == At(history, k - 1)
                 smoothedSquare == MulDiv(prev * prev, decay, SCALE)
                                   + MulDiv(deviationSquared, SCALE - decay, SCALE)
             IN  Sqrt(smoothedSquare)

\* an aggregation that pushes the sample itself instead of holding the average
roadAverage_unheld(k, accumulator, count, x, road) ==
    IF k = 0
    THEN [accumulator |-> x, count |-> 1, push |-> x, boundary |-> FALSE]
    ELSE IF k % SEGMENT_SAMPLES = 0
    THEN [accumulator |-> 0, count |-> 0, push |-> accumulator \div count,
          boundary |-> TRUE]
    ELSE [accumulator |-> accumulator + x, count |-> count + 1,
          push |-> x, boundary |-> FALSE]

\* the segment aggregation of lines 635-663 and 682-695 at sample k, for the
\* sample value x: the accumulator, the count and the value pushed
roadAverage(k, accumulator, count, x, road) ==
    IF k = 0
    THEN [accumulator |-> x, count |-> 1, push |-> x, boundary |-> FALSE]
    ELSE IF k % SEGMENT_SAMPLES = 0
    THEN [accumulator |-> 0, count |-> 0, push |-> accumulator \div count,
          boundary |-> TRUE]
    ELSE [accumulator |-> accumulator + x, count |-> count + 1,
          push |-> Last(road), boundary |-> FALSE]

\* line 644: the fix test that lets a boundary emit a segment
hasFix(gps) == gps.lat # 0 /\ gps.lng # 0

\* the RoadDANSegment of lines 645-652; geohash8 is ngeohash.encode(lat, lng, 8),
\* a function of the two coordinates, and is not carried
segmentOf(gps, avgDAN) ==
    [lat |-> gps.lat, lng |-> gps.lng, roadDAN |-> avgDAN,
     timestamp |-> gps.timestamp, speedMph |-> gps.mph]

\* an unwrapping that knows only the jump from 359 to 0
unwrapHeading_clockwise(k, unwrapped, prevHeading, magHeadingDeg) ==
    IF k = 0 THEN magHeadingDeg
    ELSE LET diff == magHeadingDeg - prevHeading
         IN  unwrapped + (IF diff > 180 * SCALE THEN diff - 360 * SCALE
                          ELSE diff)

\* lines 467-482: the unwrapped compass heading
unwrapHeading(k, unwrapped, prevHeading, magHeadingDeg) ==
    IF k = 0 THEN magHeadingDeg
    ELSE LET diff == magHeadingDeg - prevHeading
         IN  unwrapped + (IF diff > 180 * SCALE THEN diff - 360 * SCALE
                          ELSE IF diff < -180 * SCALE THEN diff + 360 * SCALE
                          ELSE diff)

\* radians to degrees: h * 180 / Math.PI
toDegrees(h) == MulDiv(h * 180, SCALE, PI)

STABLE_GRAVITY == 9800

STABLE_ACCEL_BAND == 1500

STABLE_GYRO == 300

STATIONARY_ACCEL == 100

MOVING_SPEED == 1000

TURNING_RATE == 100

\* r with value[f] appended to r[f] for every field f of value
Push(r, value) ==
    [f \in DOMAIN r |-> IF f \in DOMAIN value THEN Append(r[f], value[f]) ELSE r[f]]

VecSub(a, b) == Vec(a.x - b.x, a.y - b.y, a.z - b.z)

\* The iteration is a chain of stages; each takes the values computed so far
\* (a record s) and adds its own.

\* lines 243-249, 274, 330-331: what iteration i reads
Sensed ==
    [accel |-> At(accelData, i),
     gyro  |-> gyroOrZero(gyroData, i),
     gps   |-> At(interpolatedGPS, i),
     gpsSmoothed |-> At(interpolatedGPSSmoothed, i),
     gpsFiltered |-> At(interpolatedGPSFiltered, i),
     mag |-> magOrZero(magData, i),
     virtualForwardAccel |-> At(interpolatedRawGPSAccel, i)]

\* STEP 0 and STEP 1
Filtering(s) ==
    s @@ [accelFiltered |-> VecEma(alpha, filters.accelFiltered, s.accel),
          gyroFiltered  |-> VecEma(filterAlpha, filters.gyroFiltered, s.gyro),
          significant   |-> significantAccel(s.virtualForwardAccel)]

\* STEP 2
Tracking(s) ==
    s @@ [gravity |-> gravityTracking(gravity, s.significant, alpha, s.accelFiltered)]

\* STEP 3
Removing(s) == s @@ [linearAccel |-> VecSub(s.accel, s.gravity)]

\* STEP 4, STEP 5 and the magnetometer filter of STEP 7
Observing(s) ==
    s @@ [filteredLinearAccel |->
              VecObserverEma(observerAlpha, s.linearAccel, filters.filteredLinearAccel),
          filteredGyro |-> VecObserverEma(observerAlpha, s.gyro, filters.filteredGyro),
          filteredMagHeading |->
              ObserverEma(observerAlpha, MulDiv(s.mag.x, PI, SCALE) \div 180,
                          filters.filteredMagHeading),
          currentSpeed |-> s.gps.mps,
          rotationRate |-> s.gyro.z]

\* STEP 7: the rates of the cross-verification and the unwrapped heading
Rates(s) ==
    s @@ [magHeadingRate |->
              IF i > 0 THEN (s.filteredMagHeading - filters.prevMagHeading) * SAMPLE_RATE
                       ELSE 0,
          gyroZ_fromAccel |->
              IF s.currentSpeed > SCALE THEN Div(s.filteredLinearAccel.y, s.currentSpeed)
                                        ELSE 0,
          magHeadingUnwrapped |->
              unwrapHeading(i, filters.magHeadingUnwrapped, filters.prevHeading, s.mag.x)]

\* STEP 7: the integrated headings
Integrating(s) ==
    s @@ [integratedHeading_accel |->
              filters.integratedHeading_accel + s.gyroZ_fromAccel \div SAMPLE_RATE,
          integratedHeading_gyro |->
              filters.integratedHeading_gyro + s.filteredGyro.z \div SAMPLE_RATE]

\* a learning step that reads the observer's filtered linear acceleration
Learning_observed(s) ==
    s @@ [learned |-> forwardLearning(forward, s.significant, s.virtualForwardAccel,
                                      alpha, s.filteredLinearAccel),
          total   |-> forwardUpdates(totalForwardUpdates, s.significant)]

\* STEP 8
Learning(s) ==
    s @@ [learned |-> forwardLearning(forward, s.significant, s.virtualForwardAccel,
                                      alpha, s.linearAccel),
          total   |-> forwardUpdates(totalForwardUpdates, s.significant)]

\* lines 531-552: the change of forward, and STEP 9
Orthogonalizing(s) ==
    s @@ [forwardChange |-> Magnitude(VecSub(s.learned, prevForward)),
          forward |-> orthogonalize(s.learned, s.gravity, s.total)]

\* STEP 10 and the axes of STEP 11
Framing(s) ==
    s @@ [confidence |-> confidenceOf(s.gravity, s.forward),
          down       |-> downOf(s.gravity),
          forwardDir |-> forwardDirOf(s.forward)]

\* STEP 11: the lateral axis
Crossing(s) == s @@ [lateral |-> lateralOf(s.forwardDir, s.down)]

\* STEP 11: the transformed sample; DAN
Transforming(s) ==
    s @@ [transformed |-> transformedOf(s.linearAccel, s.forwardDir, s.lateral, s.down,
                                        s.accel.timestamp),
          danX |-> decayedRms(i, danDecay, result.danX, s.accel, s.accelFiltered)]

\* RoadDAN
Averaging(s) ==
    s @@ [dan |-> roadAverage(i, result.danAccumulator, result.danSampleCount, s.danX,
                              result.roadDAN)]

\* the elements iteration i appends before line 666
pushedBeforeDon(s) ==
    [gpsSpeedSmoothed |-> s.gpsSmoothed.mps,
     gpsSpeedFiltered |-> s.gpsFiltered.mps,
     accelFilteredX |-> s.accelFiltered.x,
     accelFilteredY |-> s.accelFiltered.y,
     accelFilteredZ |-> s.accelFiltered.z,
     gyroFilteredX |-> s.gyroFiltered.x,
     gyroFilteredY |-> s.gyroFiltered.y,
     gyroFilteredZ |-> s.gyroFiltered.z,
     gravityUpdating |-> ~ s.significant,
     virtualForwardAccel |-> s.virtualForwardAccel,
     virtualLateralAccel |-> Mul(s.currentSpeed, s.rotationRate),
     gpsSpeedRaw |-> At(steppedRawGPS, i),
     rawGPSAccel |-> At(interpolatedRawGPSAccel, i),
     gpsDeltaTime |-> At(interpolatedGPSDeltaTime, i),
     gpsTimestamp |-> At(interpolatedGPSTimestamp, i),
     accelLinearX_measured |-> s.filteredLinearAccel.x,
     accelLinearY_measured |-> s.filteredLinearAccel.y,
     accelLinearZ_measured |-> s.filteredLinearAccel.z,
     accelY_measured |-> s.filteredLinearAccel.y,
     accelY_fromGyro |-> Mul(s.currentSpeed, s.filteredGyro.z),
     accelY_fromMag |-> Mul(s.currentSpeed, s.magHeadingRate),
     gyroZ_measured |-> s.filteredGyro.z,
     gyroZ_fromAccel |-> s.gyroZ_fromAccel,
     gyroZ_fromMag |-> s.magHeadingRate,
     heading_measured |-> toDegrees(s.filteredMagHeading),
     heading_fromAccel |-> toDegrees(s.integratedHeading_accel),
     heading_fromGyro |-> toDegrees(s.integratedHeading_gyro),
     magHeading |-> s.magHeadingUnwrapped \div 10,
     phoneStable |-> Abs(Magnitude(s.accel) - STABLE_GRAVITY) < STABLE_ACCEL_BAND
                     /\ Magnitude(s.gyroFiltered) < STABLE_GYRO,
     vehicleStationary |-> Abs(s.virtualForwardAccel) < STATIONARY_ACCEL,
     vehicleMoving |-> s.currentSpeed > MOVING_SPEED,
     forwardChangeRate |-> s.forwardChange,
     transformed |-> s.transformed,
     xPrimeFiltered |-> primeFiltered(i, alpha, result.xPrimeFiltered, s.transformed.x),
     yPrimeFiltered |-> primeFiltered(i, alpha, result.yPrimeFiltered, s.transformed.y),
     zPrimeFiltered |-> primeFiltered(i, alpha, result.zPrimeFiltered, s.transformed.z),
     danX |-> s.danX,
     roadDAN |-> s.dan.push]

\* the result object when iteration i reaches line 665
resultBeforeDon(s) ==
    [Push(result, pushedBeforeDon(s)) EXCEPT
        !.danAccumulator = s.dan.accumulator,
        !.danSampleCount = s.dan.count,
        !.roadDANSegments =
            IF s.dan.boundary /\ hasFix(s.gps)
            THEN Append(@, segmentOf(s.gps, s.dan.push)) ELSE @]

\* the filter state after iteration i
filtersAfter(s) ==
    [accelFiltered |-> s.accelFiltered, gyroFiltered |-> s.gyroFiltered,
     filteredLinearAccel |-> s.filteredLinearAccel,
     filteredGyro |-> s.filteredGyro,
     filteredMagHeading |-> s.filteredMagHeading,
     prevMagHeading |-> s.filteredMagHeading, prevHeading |-> s.mag.x,
     magHeadingUnwrapped |-> s.magHeadingUnwrapped,
     integratedHeading_accel |-> s.integratedHeading_accel,
     integratedHeading_gyro |-> s.integratedHeading_gyro]

\* everything iteration i computes up to line 663, from the current state
Iteration ==
    Averaging(Transforming(Crossing(Framing(Orthogonalizing(Learning(
        Integrating(Rates(Observing(Removing(Tracking(Filtering(Sensed))))))))))))

\* line 666 reads gyroData[i].x; past the end of gyroData the element is
\* undefined and the read throws a TypeError
donThrows(gyro, k) == k >= Len(gyro)

\* DON and RoadDON, lines 665-695
Don(s, before) ==
    s @@ [donX |-> decayedRms(i, DON_DECAY, before.donX, At(gyroData, i), s.gyroFiltered)]

DonAveraging(s, before) ==
    s @@ [don |-> roadAverage(i, before.donAccumulator, before.donSampleCount, s.donX,
                              before.roadDON)]

\* an iteration that does not record its confidence
pushedFromDon_short(s) ==
    [donX |-> s.donX,
     roadDON |-> s.don.push,
     gravityHistory |-> s.gravity @@ [timestamp |-> s.accel.timestamp],
     forwardHistory |-> s.forward @@ [timestamp |-> s.accel.timestamp],
     gpsAccelDetected |-> s.significant,
     turningDetected |-> Abs(s.rotationRate) > TURNING_RATE,
     forwardUpdateCount |-> s.total]

\* the elements iteration i appends from line 665 on
pushedFromDon(s) ==
    [donX |-> s.donX,
     roadDON |-> s.don.push,
     gravityHistory |-> s.gravity @@ [timestamp |-> s.accel.timestamp],
     forwardHistory |-> s.forward @@ [timestamp |-> s.accel.timestamp],
     confidence |-> s.confidence,
     gpsAccelDetected |-> s.significant,
     turningDetected |-> Abs(s.rotationRate) > TURNING_RATE,
     forwardUpdateCount |-> s.total]

\* the tracker's state after iteration i
Carry(s) ==
    /\ gravity' = s.gravity
    /\ forward' = s.forward
    /\ prevForward' = s.learned
    /\ totalForwardUpdates' = s.total
    /\ filters' = filtersAfter(s)

Complete(s, before) ==
    /\ Carry(s)
    /\ result' = [Push(before, pushedFromDon(s)) EXCEPT
                     !.donAccumulator = s.don.accumulator,
                     !.donSampleCount = s.don.count]

CompleteFrom(s, before) == Complete(DonAveraging(Don(s, before), before), before)

Continue(s) == CompleteFrom(s, resultBeforeDon(s))

Abort(s) == Carry(s) /\ result' = resultBeforeDon(s)

\* iteration i of the main loop
Step ==
    /\ pc = "loop"
    /\ i < Len(accelData)
    /\ ~ donThrows(gyroData, i)
    /\ Continue(Iteration)
    /\ i' = i + 1
    /\ UNCHANGED << beyondCalibration, inputs, pc, prepass >>

\* iteration i when gyroData is shorter than accelData: the call ends at
\* line 666 with the arrays of lines 250-662 already one element longer
StepThrows ==
    /\ pc = "loop"
    /\ i < Len(accelData)
    /\ donThrows(gyroData, i)
    /\ Abort(Iteration)
    /\ pc' = "threw"
    /\ UNCHANGED << beyondCalibration, inputs, i, prepass >>

\* lines 705-757: the sample rate and the return
Return ==
    /\ pc = "loop"
    /\ i >= Len(accelData)
    /\ LET n == Len(accelData)
           totalTimeMs == accelData[n].timestamp - accelData[1].timestamp
       IN  result' =
             [result EXCEPT !.actualSampleRate =
                 IF n > 1 /\ accelData[1].timestamp # 0 /\ accelData[n].timestamp # 0
                    /\ totalTimeMs > 0
                 THEN ((n - 1) * 1000 * SCALE) \div totalTimeMs ELSE @]
    /\ pc' = "returned"
    /\ UNCHANGED << beyondCalibration, inputs, i, prepass, tracker >>

Next == Prepare \/ PrepareThrows \/ GpsAccelStep \/ GpsAccelDone \/ Step \/ StepThrows \/ Return

Spec == Init /\ [][Next]_vars

\* ------------------------------------------------------------------------
\* Calls of applyFloatingCalibration one after another, as the calibration
\* page makes them for the sessions it opens
\* ------------------------------------------------------------------------

MaxCalls == 3

\* the sessions the page opens: a pushed phone with a turning gyroscope,
\* without gps, with a vehicle that stands and then speeds up and with one
\* that cruises and then brakes; and a phone on a rough road whose gyro
\* array is one sample short, the vehicle standing and then speeding up
CallSessions ==
    { s \in [rig : Rigs(61), gps : GpsInputs] :
        /\ s.rig.magLen = 61
        /\ Len(s.gps) \in { 0, 3 }
        /\ \/ s.rig.accel = "push"
           \/ s.rig.accel = "rough" /\ Len(s.gps) = 3 /\ s.gps[1].mps = 0 }

\* the four arrays of a session
ArraysOf(s) ==
    << AccelSamples(s.rig.accel, 61), GyroSamples(s.rig.gyro, s.rig.gyroLen),
       MagSamples(s.rig.mag, s.rig.magLen), s.gps >>

\* what the caller gets from the call that has ended: the result, or the
\* exception
Outcome == IF pc = "returned" THEN << "returned", result >> ELSE << "threw" >>

\* a tracker that starts from the gravity of the call before
initialGravity_kept == gravity

\* line 108: let gravity = { x: 0, y: 0, z: 0 }
initialGravity == ZeroVec

\* lines 42-133 and the declarations of the pre-pass: the next call binds
\* its arguments and creates its result object and its locals
Invoke ==
    /\ pc \in { "returned", "threw" }
    /\ Len(earlier) < MaxCalls - 1
    /\ earlier' = Append(earlier, [inputs |-> inputs, outcome |-> Outcome])
    /\ \E s \in CallSessions :
          /\ accelData' = ArraysOf(s)[1]
          /\ gyroData' = ArraysOf(s)[2]
          /\ magData' = ArraysOf(s)[3]
          /\ gpsData' = ArraysOf(s)[4]
          /\ given' = ArraysOf(s)
    /\ result' = EmptyResult
    /\ gravity' = initialGravity
    /\ forward' = ZeroVec
    /\ prevForward' = ZeroVec
    /\ totalForwardUpdates' = 0
    /\ filters' = InitialFilters
    /\ smoothedAccel' = 0
    /\ steppedRawGPS' = << >>
    /\ interpolatedGPS' = << >>
    /\ interpolatedGPSSmoothed' = << >>
    /\ interpolatedGPSFiltered' = << >>
    /\ interpolatedRawGPSAccel' = << >>
    /\ interpolatedGPSDeltaTime' = << >>
    /\ interpolatedGPSTimestamp' = << >>
    /\ pc' = "start"
    /\ i' = 0
    /\ UNCHANGED << histograms, browser, database,
                    alpha, observerAlpha, filterAlpha, gpsSpeedAlpha, danDecay >>

CallsInit ==
    /\ \E s \in CallSessions :
          /\ accelData = ArraysOf(s)[1]
          /\ gyroData = ArraysOf(s)[2]
          /\ magData = ArraysOf(s)[3]
          /\ gpsData = ArraysOf(s)[4]
          /\ given = ArraysOf(s)
    /\ alpha = DefaultAlpha
    /\ observerAlpha = DefaultObserverAlpha
    /\ filterAlpha = DefaultFilterAlpha
    /\ gpsSpeedAlpha = DefaultGpsSpeedAlpha
    /\ danDecay = DefaultDanDecay
    /\ pc = "start"
    /\ i = 0
    /\ smoothedAccel = 0
    /\ steppedRawGPS = << >>
    /\ interpolatedGPS = << >>
    /\ interpolatedGPSSmoothed = << >>
    /\ interpolatedGPSFiltered = << >>
    /\ interpolatedRawGPSAccel = << >>
    /\ interpolatedGPSDeltaTime = << >>
    /\ interpolatedGPSTimestamp = << >>
    /\ gravity = ZeroVec
    /\ forward = ZeroVec
    /\ prevForward = ZeroVec
    /\ totalForwardUpdates = 0
    /\ filters = InitialFilters
    /\ result = EmptyResult
    /\ earlier = << >>
    /\ NoHistogram
    /\ NoBrowser
    /\ NoDatabase

CallsNext == Invoke \/ Next

CallsSpec == CallsInit /\ [][CallsNext]_vars

\* ------------------------------------------------------------------------
\* The histograms of the calibration page: a session histogram is filled
\* from the session's roadDAN values and merged into the cumulative one
\* ------------------------------------------------------------------------

\* no call of applyFloatingCalibration is in progress
NoCalibration ==
    /\ accelData = << >> /\ gyroData = << >> /\ magData = << >> /\ gpsData = << >>
    /\ alpha = DefaultAlpha
    /\ observerAlpha = DefaultObserverAlpha
    /\ filterAlpha = DefaultFilterAlpha
    /\ gpsSpeedAlpha = DefaultGpsSpeedAlpha
    /\ danDecay = DefaultDanDecay
    /\ pc = "returned"
    /\ i = 0
    /\ smoothedAccel = 0
    /\ steppedRawGPS = << >>
    /\ interpolatedGPS = << >>
    /\ interpolatedGPSSmoothed = << >>
    /\ interpolatedGPSFiltered = << >>
    /\ interpolatedRawGPSAccel = << >>
    /\ interpolatedGPSDeltaTime = << >>
    /\ interpolatedGPSTimestamp = << >>
    /\ gravity = ZeroVec
    /\ forward = ZeroVec
    /\ prevForward = ZeroVec
    /\ totalForwardUpdates = 0
    /\ filters = InitialFilters
    /\ result = EmptyResult

HistInit ==
    /\ NoCalibration
    /\ NoBrowser
    /\ NoDatabase
    /\ NoCalls
    /\ sessionHistogram = createHistogram
    /\ cumulative = createPersistentHistogram
    /\ feed \in Feeds
    /\ fed = 0

\* addSample(histogram, segment.roadDAN) for the next value of the session
AddSample ==
    /\ fed < feed.count
    /\ sessionHistogram' = addSample(sessionHistogram, sampleOf(feed, fed))
    /\ fed' = fed + 1
    /\ UNCHANGED << beyondHistograms, cumulative, feed >>

\* mergeHistogram(cumulative, sessionHistogram) once the session is complete
MergeSession ==
    /\ fed = feed.count
    /\ cumulative.sessionCount < MaxSessions
    /\ cumulative' = mergeHistogram(cumulative, sessionHistogram)
    /\ UNCHANGED << beyondHistograms, sessionHistogram, feed, fed >>

\* the page is opened for another session: createHistogram()
NextSession ==
    /\ fed = feed.count
    /\ cumulative.sessionCount < MaxSessions
    /\ sessionHistogram' = createHistogram
    /\ feed' \in Feeds
    /\ fed' = 0
    /\ UNCHANGED << beyondHistograms, cumulative >>

HistNext == AddSample \/ MergeSession \/ NextSession

HistSpec == HistInit /\ [][HistNext]_vars

\* ------------------------------------------------------------------------
\* The merge effect of the calibration page and the localStorage it shares
\* with the other tabs of the browser
\* ------------------------------------------------------------------------

\* the elements of an array
Range(array) == { array[k] : k \in DOMAIN array }

\* getIncludedSessions(): the Set of the stored array, empty without an item
getIncludedSessions ==
    IF localStorage.danHistogramSessions = << >> THEN {}
    ELSE Range(localStorage.danHistogramSessions[1])

\* [...sessions] after sessions.add(sessionId): insertion order, no duplicate
added(sessions, sessionId) ==
    IF sessionId \in Range(sessions) THEN sessions
    ELSE Append(sessions, sessionId)

\* a merge effect that never finds the session included
alreadyIncluded_never(includedSessions, sessionId) == FALSE

\* includedSessions.has(sessionId)
alreadyIncluded(includedSessions, sessionId) == sessionId \in includedSessions

\* The page of tab t shows session sessionId with the histogram of its
\* segments (none when there is no segment): after navigation, after a
\* reload, or after a tuning parameter changed and the result was
\* recomputed.  The effect is due to run, its dependencies being new.
Shows(t, sessionId, histogram) ==
    tab' = [tab EXCEPT ![t] = [ClosedTab EXCEPT !.sessionId = sessionId,
                                                !.sessionHistogram = histogram,
                                                !.pc = "effect"]]

OpenPage ==
    /\ tab["a"].pc = "idle"
    /\ \E sessionId \in SessionIds :
       \E histogram \in { << >> } \cup { << h >> : h \in Recordings } :
          Shows("a", sessionId, histogram)
    /\ UNCHANGED << beyondBrowser, localStorage, merged >>

\* lines 426-432: nothing to merge, or the session is already included
EffectStart(t) ==
    /\ tab[t].pc = "effect"
    /\ IF tab[t].sessionHistogram = << >>
       THEN tab' = [tab EXCEPT ![t].pc = "idle"]
       ELSE tab' = [tab EXCEPT
                      ![t].includedSessions = getIncludedSessions,
                      ![t].pc = IF alreadyIncluded(getIncludedSessions,
                                                   tab[t].sessionId)
                                THEN "idle" ELSE "load"]
    /\ UNCHANGED << beyondBrowser, localStorage, merged >>

\* lines 435-438: loadHistogram(), or createPersistentHistogram() without an
\* item
LoadCumulative(t) ==
    /\ tab[t].pc = "load"
    /\ tab' = [tab EXCEPT
                 ![t].cumulative =
                     IF localStorage.danHistogram = << >>
                     THEN << createPersistentHistogram >>
                     ELSE localStorage.danHistogram,
                 ![t].counted =
                     IF localStorage.danHistogram = << >> THEN NoneMerged
                     ELSE merged,
                 ![t].pc = "merge"]
    /\ UNCHANGED << beyondBrowser, localStorage, merged >>

\* line 440: mergeHistogram(cumulative, sessionHistogram)
MergeLoaded(t) ==
    /\ tab[t].pc = "merge"
    /\ tab' = [tab EXCEPT
                 ![t].cumulative =
                     << mergeHistogram(@[1], tab[t].sessionHistogram[1]) >>,
                 ![t].counted = [@ EXCEPT ![tab[t].sessionId] = @ + 1],
                 ![t].pc = "mark"]
    /\ UNCHANGED << beyondBrowser, localStorage, merged >>

\* line 441, markSessionIncluded line 139: the stored array is read
MarkRead(t) ==
    /\ tab[t].pc = "mark"
    /\ tab' = [tab EXCEPT
                 ![t].sessions =
                     IF localStorage.danHistogramSessions = << >> THEN << >>
                     ELSE localStorage.danHistogramSessions[1],
                 ![t].pc = "markWrite"]
    /\ UNCHANGED << beyondBrowser, localStorage, merged >>

\* markSessionIncluded lines 140-141: the array with the session is written
MarkWrite(t) ==
    /\ tab[t].pc = "markWrite"
    /\ localStorage' =
          [localStorage EXCEPT
             !.danHistogramSessions = << added(tab[t].sessions, tab[t].sessionId) >>]
    /\ tab' = [tab EXCEPT ![t].pc = "save"]
    /\ UNCHANGED << beyondBrowser, merged >>

\* line 442: saveHistogram(cumulative)
SaveCumulative(t) ==
    /\ tab[t].pc = "save"
    /\ localStorage' =
          [localStorage EXCEPT
             !.danHistogram = << stringified(tab[t].cumulative[1]) >>]
    /\ merged' = tab[t].counted
    /\ tab' = [tab EXCEPT ![t].pc = "idle"]
    /\ UNCHANGED beyondBrowser

\* the merge effect of tab t, one storage access at a time
MergeEffect(t) ==
    \/ EffectStart(t)
    \/ LoadCumulative(t)
    \/ MergeLoaded(t)
    \/ MarkRead(t)
    \/ MarkWrite(t)
    \/ SaveCumulative(t)

\* one tab: sessions are opened, reopened and retuned one after the other
PageInit ==
    /\ NoCalibration
    /\ NoHistogram
    /\ NoBrowser
    /\ NoDatabase
    /\ NoCalls

PageNext == OpenPage \/ MergeEffect("a")

PageSpec == PageInit /\ [][PageNext]_vars

\* two tabs, each showing a session of its own, run the effect at once
TabsInit ==
    /\ NoCalibration
    /\ NoHistogram
    /\ NoDatabase
    /\ NoCalls
    /\ localStorage = [danHistogram |-> << >>, danHistogramSessions |-> << >>]
    /\ merged = NoneMerged
    /\ \E ha, hb \in Recordings :
          tab = [t \in Tabs |->
                   [ClosedTab EXCEPT
                      !.sessionId = IF t = "a" THEN "s1" ELSE "s2",
                      !.sessionHistogram = IF t = "a" THEN << ha >> ELSE << hb >>,
                      !.pc = "effect"]]

TabsNext == \E t \in Tabs : MergeEffect(t)

TabsSpec == TabsInit /\ [][TabsNext]_vars

\* ------------------------------------------------------------------------
\* The pothole database: hits and clean passes of a cell
\* ------------------------------------------------------------------------

\* A confidence is kept as the double it is: the one nearest to tenths / 10,
\* or, with above, a double a few units in the last place above it.
\* line 55, line 74: confidence: 1.0
FullConfidence == [tenths |-> 10, above |-> FALSE]

\* confidence - 0.1 in doubles.  1.0 - 0.1 is 0.9 and 0.9 - 0.1 is 0.8, but
\* 0.8 - 0.1 is 0.7000000000000001, and from there every difference stays
\* above the tenth: 0.6000000000000001, 0.5000000000000001,
\* 0.40000000000000013, 0.30000000000000016, 0.20000000000000015,
\* 0.10000000000000014 and 1.3877787807814457e-16.
minusTenth(confidence) ==
    [tenths |-> confidence.tenths - 1,
     above  |-> confidence.above \/ confidence.tenths = 8]

\* confidence > 0
positive(confidence) ==
    confidence.tenths > 0 \/ (confidence.tenths = 0 /\ confidence.above)

\* lines 93 and 127: Math.max(0, pothole.confidence - 0.1)
newConfidenceOf(confidence) ==
    IF positive(minusTenth(confidence)) THEN minusTenth(confidence)
    ELSE [tenths |-> 0, above |-> FALSE]

\* lines 50-78: the entry after a hit.  Of the entry the model keeps the
\* confidence and the two values the hit takes the maximum of.
hit(entry, pothole) ==
    IF entry # << >>
    THEN << [entry[1] EXCEPT !.confidence = FullConfidence,
                             !.donValue = Max(@, pothole.donValue),
                             !.danValue = Max(@, pothole.danValue)] >>
    ELSE << [confidence |-> FullConfidence,
             donValue |-> pothole.donValue, danValue |-> pothole.danValue] >>

\* lines 91-105 and 125-140: the entry after a clean pass
cleanPass(entry) ==
    IF entry = << >> THEN << >>
    ELSE IF ~ positive(newConfidenceOf(entry[1].confidence)) THEN << >>
    ELSE << [entry[1] EXCEPT !.confidence = newConfidenceOf(@)] >>

\* the database and the count of clean passes after a hit on a cell
afterHit(db, pothole) ==
    [potholes |-> [db.potholes EXCEPT ![pothole.geohash] = hit(@, pothole)],
     sinceHit |-> [db.sinceHit EXCEPT ![pothole.geohash] = 0]]

\* the same after a clean pass through a cell; a pass through a cell
\* without an entry changes nothing
afterCleanPass(db, geohash) ==
    [potholes |-> [db.potholes EXCEPT ![geohash] = cleanPass(@)],
     sinceHit |-> [db.sinceHit EXCEPT
                     ![geohash] = IF db.potholes[geohash] = << >> THEN @
                                  ELSE @ + 1]]

RECURSIVE afterHits(_, _, _)
\* lines 45-79: the loop over the detected potholes from the k-th on
afterHits(db, detected, k) ==
    IF k > Len(detected) THEN db
    ELSE afterHits(afterHit(db, detected[k]), detected, k + 1)

RECURSIVE afterCleanPasses(_, _, _)
\* lines 121-141: the loop over the clean cells from the k-th on
afterCleanPasses(db, cleanGeohashes, k) ==
    IF k > Len(cleanGeohashes) THEN db
    ELSE afterCleanPasses(afterCleanPass(db, cleanGeohashes[k]),
                          cleanGeohashes, k + 1)

\* the detections of a session: one or two potholes
Detections ==
    [geohash : Cells, donValue : {1 * SCALE, 2 * SCALE}, danValue : {SCALE}]

DetectionLists ==
    { << d >> : d \in Detections }
      \cup { << d, e >> : d \in Detections, e \in Detections }

\* the cells a session drove through, in order, some of them twice
GeohashLists ==
    { << >> } \cup { << g >> : g \in Cells }
      \cup { << g, h >> : g \in Cells, h \in Cells }

\* the database as one record
Database == [potholes |-> potholes, sinceHit |-> sinceHit]

Becomes(db) == potholes' = db.potholes /\ sinceHit' = db.sinceHit

\* uploadSessionPotholes(userId, sessionId, vehicleId, potholes)
UploadSessionPotholes ==
    /\ \E detected \in DetectionLists : Becomes(afterHits(Database, detected, 1))
    /\ UNCHANGED beyondDatabase

\* recordCleanPass(geohash)
RecordCleanPass ==
    /\ \E geohash \in Cells : Becomes(afterCleanPass(Database, geohash))
    /\ UNCHANGED beyondDatabase

\* recordCleanPasses(drivenGeohashes, detectedGeohashes); line 119 filters
\* the cells with a detection out
RecordCleanPasses ==
    /\ \E drivenGeohashes \in GeohashLists :
       \E detectedGeohashes \in SUBSET Cells :
          LET clean(g) == g \notin detectedGeohashes
          IN  Becomes(afterCleanPasses(Database,
                                       SelectSeq(drivenGeohashes, clean), 1))
    /\ UNCHANGED beyondDatabase

PotholeInit ==
    /\ NoCalibration
    /\ NoHistogram
    /\ NoBrowser
    /\ NoDatabase
    /\ NoCalls

PotholeNext == UploadSessionPotholes \/ RecordCleanPass \/ RecordCleanPasses

PotholeSpec == PotholeInit /\ [][PotholeNext]_vars

\* ------------------------------------------------------------------------
\* The magnetometer heading of the loop on its own, and helpers.unwrapAngles
\* ------------------------------------------------------------------------

\* compass headings in degrees: the quarter turns, both sides of the half
\* turn, and the last degree before north
Headings == { 0, 90, 179, 180, 181, 270, 359 }

\* the longest sequence of headings
MaxHeadings == 4

RECURSIVE HeadingSequences(_)
\* the magnetometer arrays of n samples whose x is a heading
HeadingSequences(n) ==
    IF n = 0 THEN { << >> }
    ELSE { Append(before, Vec(h * SCALE, 0, 0) @@ [timestamp |-> TimeAt(n - 1)]) :
             before \in HeadingSequences(n - 1), h \in Headings }

RECURSIVE unwrapFrom(_, _, _, _)
\* helpers.ts lines 72-82: the loop of unwrapAngles from index k on (from 1)
unwrapFrom(angles, k, offset, unwrapped) ==
    IF k > Len(angles) THEN unwrapped
    ELSE LET diff == angles[k] - angles[k - 1]
             moved == IF diff > 180 * SCALE THEN offset - 360 * SCALE
                      ELSE IF diff < -180 * SCALE THEN offset + 360 * SCALE
                      ELSE offset
         IN  unwrapFrom(angles, k + 1, moved, Append(unwrapped, angles[k] + moved))

\* helpers.unwrapAngles(angles)
unwrapAngles(angles) ==
    IF Len(angles) = 0 THEN << >>
    ELSE unwrapFrom(angles, 2, 0, << angles[1] >>)

\* the loop is entered with a magnetometer array and nothing else to read
HeadingInit ==
    /\ accelData = << >> /\ gyroData = << >> /\ gpsData = << >>
    /\ \E n \in 1..MaxHeadings : magData \in HeadingSequences(n)
    /\ alpha = DefaultAlpha
    /\ observerAlpha = DefaultObserverAlpha
    /\ filterAlpha = DefaultFilterAlpha
    /\ gpsSpeedAlpha = DefaultGpsSpeedAlpha
    /\ danDecay = DefaultDanDecay
    /\ pc = "loop"
    /\ i = 0
    /\ smoothedAccel = 0
    /\ steppedRawGPS = << >>
    /\ interpolatedGPS = << >>
    /\ interpolatedGPSSmoothed = << >>
    /\ interpolatedGPSFiltered = << >>
    /\ interpolatedRawGPSAccel = << >>
    /\ interpolatedGPSDeltaTime = << >>
    /\ interpolatedGPSTimestamp = << >>
    /\ gravity = ZeroVec
    /\ forward = ZeroVec
    /\ prevForward = ZeroVec
    /\ totalForwardUpdates = 0
    /\ filters = InitialFilters
    /\ result = EmptyResult
    /\ NoHistogram
    /\ NoBrowser
    /\ NoDatabase
    /\ NoCalls

\* lines 462-494 for the sample of index i: the heading is unwrapped and a
\* tenth of it is pushed
MagHeadingStep ==
    /\ pc = "loop"
    /\ i < Len(magData)
    /\ LET magHeadingDeg == At(magData, i).x
           unwrapped == unwrapHeading(i, filters.magHeadingUnwrapped,
                                      filters.prevHeading, magHeadingDeg)
       IN  /\ filters' = [filters EXCEPT !.magHeadingUnwrapped = unwrapped,
                                         !.prevHeading = magHeadingDeg]
           /\ result' = [result EXCEPT !.magHeading = Append(@, unwrapped \div 10)]
    /\ i' = i + 1
    /\ UNCHANGED << beyondCalibration, inputs, pc, prepass, gravity, forward,
                    prevForward, totalForwardUpdates >>

HeadingNext == MagHeadingStep

HeadingSpec == HeadingInit /\ [][HeadingNext]_vars

\* ------------------------------------------------------------------------
\* Properties
\* ------------------------------------------------------------------------

\* number of samples the main loop has recorded completely
Recorded == Len(result.gravityHistory)

XYZ(v) == Vec(v.x, v.y, v.z)

\* gravity as recorded after sample k (1-based), the zero vector before the first
GravityAfter(k) == IF k = 0 THEN ZeroVec ELSE XYZ(result.gravityHistory[k])

AccelFilteredAt(k) ==
    Vec(result.accelFilteredX[k], result.accelFilteredY[k], result.accelFilteredZ[k])

\* C1: for every sample, gravity is frozen when |virtualForwardAccel| > 0.2 and
\* otherwise becomes alpha * gravity + (1 - alpha) * accelFiltered on each axis;
\* between samples gravity does not change (the tracker's gravity is the one
\* recorded for the last sample).
C1_GravityFrozenOrFiltered ==
    /\ \A k \in 1..Recorded :
          IF Abs(result.virtualForwardAccel[k]) > SIGNIFICANT_ACCEL
          THEN GravityAfter(k) = GravityAfter(k - 1)
          ELSE GravityAfter(k) =
                  Vec((alpha * GravityAfter(k - 1).x
                          + (SCALE - alpha) * result.accelFilteredX[k]) \div SCALE,
                      (alpha * GravityAfter(k - 1).y
                          + (SCALE - alpha) * result.accelFilteredY[k]) \div SCALE,
                      (alpha * GravityAfter(k - 1).z
                          + (SCALE - alpha) * result.accelFilteredZ[k]) \div SCALE)
    /\ pc \in {"loop", "returned"} => gravity = GravityAfter(Recorded)

\* a call has returned in which gravity was frozen on a sample where the filter
\* would have moved it, and was filtered on another
C1_Witness ==
    /\ pc = "returned"
    /\ \E k \in 2..Recorded :
          /\ Abs(result.virtualForwardAccel[k]) > SIGNIFICANT_ACCEL
          /\ GravityAfter(k) = GravityAfter(k - 1)
          /\ VecEma(alpha, GravityAfter(k - 1), AccelFilteredAt(k)) # GravityAfter(k - 1)
    /\ \E k \in 2..Recorded :
          /\ Abs(result.virtualForwardAccel[k]) <= SIGNIFICANT_ACCEL
          /\ GravityAfter(k) # GravityAfter(k - 1)

\* forwardUpdateCount before sample k (1-based)
CountAfter(k) == IF k = 0 THEN 0 ELSE result.forwardUpdateCount[k]

\* C2: on every sample exactly one of the two estimators runs:
\* gravityUpdating[i] = ~ gpsAccelDetected[i], and forwardUpdateCount rises by
\* exactly 1 on a learning sample and is unchanged otherwise, so that it is the
\* number of samples j <= i with gpsAccelDetected[j].
C2_ExclusiveGate ==
    /\ \A k \in 1..Recorded :
          /\ result.gravityUpdating[k] = ~ result.gpsAccelDetected[k]
          /\ result.gpsAccelDetected[k] =
                (Abs(result.virtualForwardAccel[k]) > SIGNIFICANT_ACCEL)
          /\ CountAfter(k) = CountAfter(k - 1)
                                + (IF result.gpsAccelDetected[k] THEN 1 ELSE 0)
    /\ pc = "returned" =>
          CountAfter(Recorded)
             = Cardinality({j \in 1..Recorded : result.gpsAccelDetected[j]})

\* a call has returned with learning samples and gravity samples
C2_Witness ==
    /\ pc = "returned"
    /\ CountAfter(Recorded) > 0
    /\ CountAfter(Recorded) < Recorded
    /\ \E k \in 1..Recorded : result.gpsAccelDetected[k] /\ ~ result.gravityUpdating[k]

\* the residue a fixed-point orthogonalization may leave (1e-6 is below the
\* resolution of the model)
OrthoTolerance == SCALE \div 100

\* C3: at every sample from the first forward-learning event on, the recorded
\* forward vector is orthogonal to the down axis the frame transformer uses at
\* that sample, also when that axis is the identity {0, 0, 1}.
C3_Orthogonality ==
    \A k \in 1..Recorded :
        CountAfter(k) > 0 =>
            Abs(Dot(XYZ(result.forwardHistory[k]), downOf(GravityAfter(k))))
                <= OrthoTolerance

\* C4: with an empty gps array and a non-empty accel array the call returns
\* normally, with no segment, no vehicleMoving flag and every GPS-derived
\* channel 0.
C4_DegenerateGps ==
    (Len(gpsData) = 0 /\ Len(accelData) > 0) =>
        /\ pc # "threw"
        /\ pc = "returned" =>
              /\ result.roadDANSegments = << >>
              /\ \A k \in 1..Len(accelData) :
                    /\ ~ result.vehicleMoving[k]
                    /\ result.gpsSpeedRaw[k] = 0
                    /\ result.gpsSpeedSmoothed[k] = 0
                    /\ result.gpsSpeedFiltered[k] = 0
                    /\ result.virtualForwardAccel[k] = 0
                    /\ result.rawGPSAccel[k] = 0

\* the main loop is about to run iteration i, a 60-sample boundary
AtBoundary == pc = "loop" /\ i < Len(accelData) /\ i > 0 /\ i % SEGMENT_SAMPLES = 0

SegmentEmitted == Len(result'.roadDANSegments) = Len(result.roadDANSegments) + 1

\* a fix in the sense of the data model: not both coordinates 0
ValidFix(gps) == gps.lat # 0 \/ gps.lng # 0

\* C5: a segment is emitted at a 60-sample boundary i if and only if the fix
\* at i has lat # 0 or lng # 0; nothing is emitted elsewhere.
C5_SegmentIffFix ==
    [][ /\ AtBoundary => (SegmentEmitted <=> ValidFix(At(interpolatedGPS, i)))
        /\ ~ AtBoundary => result'.roadDANSegments = result.roadDANSegments ]_vars

\* the gps samples interpolateGPSData blends, with non-zero weight, into the
\* element for sample k of n
SourceFixes(gps, k, n) ==
    IF Len(gps) = n THEN {At(gps, k)}
    ELSE LET prevIndex == (k * Len(gps)) \div n
             nextIndex == Min(prevIndex + 1, Len(gps) - 1)
         IN  {At(gps, prevIndex)}
                \cup (IF (k * Len(gps)) % n # 0 THEN {At(gps, nextIndex)} ELSE {})

\* C6: no segment is emitted with a position computed from a no-fix sample
\* (lat = 0 and lng = 0), also not by interpolation between a no-fix sample
\* and a neighbouring fix.
C6_NoFixExcluded ==
    [][ SegmentEmitted =>
            \A g \in SourceFixes(gpsData, i, Len(accelData)) : ValidFix(g) ]_vars

\* the 60-sample boundaries among the first n samples (0-based indices)
Boundaries(n) == {k \in 1..(n - 1) : k % SEGMENT_SAMPLES = 0}

\* C7: for N samples the loop processes floor(N / 60) boundaries: with a valid
\* fix at every sample there are floor(N / 60) segments (1 for N = 60), there
\* are never more, and there are strictly fewer when some boundary has no
\* valid fix.
C7_SegmentCount ==
    pc = "returned" =>
        LET n == Len(accelData)
        IN  /\ Len(result.roadDANSegments) <= n \div SEGMENT_SAMPLES
            /\ (\A k \in 1..n : ValidFix(interpolatedGPS[k]))
                  => Len(result.roadDANSegments) = n \div SEGMENT_SAMPLES
            /\ (\E k \in Boundaries(n) : ~ ValidFix(At(interpolatedGPS, k)))
                  => Len(result.roadDANSegments) < n \div SEGMENT_SAMPLES

\* C8: blocks are of exactly 60 samples: when a boundary divides, the count is
\* 60 (and not 0), and every sample processed so far has been counted in
\* exactly one block, the closed ones or the open one.
C8_BlocksOfSixty ==
    pc = "loop" =>
        /\ AtBoundary => /\ result.danSampleCount = SEGMENT_SAMPLES
                         /\ result.donSampleCount = SEGMENT_SAMPLES
        /\ result.danSampleCount + SEGMENT_SAMPLES * Cardinality(Boundaries(i)) = i
        /\ result.donSampleCount + SEGMENT_SAMPLES * Cardinality(Boundaries(i)) = i

\* C9: roadDAN and roadDON are stepped: off the multiples of 60 each element
\* repeats the one before, and the roadDAN of every emitted segment is the
\* element of roadDAN at a boundary whose fix is the segment's position.
C9_ZeroOrderHold ==
    /\ \A k \in 1..(Len(result.roadDAN) - 1) :
          k % SEGMENT_SAMPLES # 0 => At(result.roadDAN, k) = At(result.roadDAN, k - 1)
    /\ \A k \in 1..(Len(result.roadDON) - 1) :
          k % SEGMENT_SAMPLES # 0 => At(result.roadDON, k) = At(result.roadDON, k - 1)
    /\ \A n \in 1..Len(result.roadDANSegments) :
          \E k \in Boundaries(Len(result.roadDAN)) :
             /\ result.roadDANSegments[n].roadDAN = At(result.roadDAN, k)
             /\ result.roadDANSegments[n].lat = At(interpolatedGPS, k).lat
             /\ result.roadDANSegments[n].lng = At(interpolatedGPS, k).lng

\* a call has returned whose roadDAN and roadDON step at a boundary while danX
\* and donX move inside the blocks, with a segment carrying the step's value
C9_Witness ==
    /\ pc = "returned"
    /\ \E k \in Boundaries(Len(accelData)) :
          /\ At(result.roadDAN, k) # At(result.roadDAN, k - 1)
          /\ At(result.roadDON, k) # At(result.roadDON, k - 1)
          /\ At(result.danX, k - 1) # At(result.danX, k - 2)
          /\ At(result.donX, k - 1) # At(result.donX, k - 2)
          /\ \E n \in 1..Len(result.roadDANSegments) :
                result.roadDANSegments[n].roadDAN = At(result.roadDAN, k)

\* C10: when the call returns (accel.length = gyro.length = N), every
\* per-sample array of the result has exactly N elements; inside the loop
\* every array has one element per iteration done.
C10_OneElementPerSample ==
    /\ pc = "returned" =>
          \A f \in ArrayFields : Len(result[f]) = Len(accelData)
    /\ pc = "loop" => \A f \in ArrayFields : Len(result[f]) = i

\* a call over the longest session has returned after passing boundaries
C10_Witness ==
    /\ pc = "returned"
    /\ Len(accelData) = Len(gyroData)
    /\ Len(accelData) = MaxLen
    /\ Len(result.roadDANSegments) > 0
    /\ Len(result.transformed) = MaxLen

\* the main loop is about to run iteration i
InLoop == pc = "loop" /\ i < Len(accelData)

\* f, l, d are unit vectors, pairwise orthogonal, with l = f x d, up to the
\* resolution of the fixed-point arithmetic
Orthonormal(f, l, d) ==
    /\ Abs(Magnitude(f) - SCALE) <= OrthoTolerance
    /\ Abs(Magnitude(l) - SCALE) <= OrthoTolerance
    /\ Abs(Magnitude(d) - SCALE) <= OrthoTolerance
    /\ Abs(Dot(f, d)) <= OrthoTolerance
    /\ Abs(Dot(f, l)) <= OrthoTolerance
    /\ Abs(Dot(l, d)) <= OrthoTolerance
    /\ l = lateralOf(f, d)

\* the basis iteration i transforms with
BasisOrthonormal(s) == Orthonormal(s.forwardDir, s.lateral, s.down)

\* C11: at every sample the basis [forwardDir, lateral, down] of the frame
\* transformer is orthonormal and right-handed, in all four combinations of
\* learned and fallback directions.
C11_OrthonormalBasis == InLoop => BasisOrthonormal(Iteration)

\* every axis of a direction is within the unit length
Bounded(v) ==
    /\ Abs(v.x) <= SCALE + OrthoTolerance
    /\ Abs(v.y) <= SCALE + OrthoTolerance
    /\ Abs(v.z) <= SCALE + OrthoTolerance

\* the blend the learning step of iteration i normalises
BlendOf(s) == forwardBlend(forward, s.virtualForwardAccel, alpha, s.linearAccel)

\* iteration i has divided by no magnitude at or below its threshold: a
\* vector whose magnitude is at or below the threshold is left as it is
\* (learning, orthogonalization) or replaced by the identity direction
\* (frame), and every direction stays within the unit length
GuardedDivisions(s) ==
    /\ (s.significant /\ Magnitude(BlendOf(s)) <= MIN_FORWARD_MAG)
           => s.learned = BlendOf(s)
    /\ Magnitude(s.gravity) <= MIN_DIRECTION_MAG
           => s.forward = s.learned /\ s.down = Vec(0, 0, SCALE)
    /\ Magnitude(s.forward) <= MIN_DIRECTION_MAG => s.forwardDir = Vec(SCALE, 0, 0)
    /\ Bounded(s.learned) /\ Bounded(s.forward)
    /\ Bounded(s.forwardDir) /\ Bounded(s.down) /\ Bounded(s.lateral)

\* C12: no normalisation divides by a magnitude at or below its threshold
\* (0.01 in the learning step, 0.1 in the orthogonalization and in the frame
\* transformer, which falls back to {0,0,1} and {1,0,0}), so that no
\* direction leaves the unit range.
C12_GuardedNormalisation == InLoop => GuardedDivisions(Iteration)

\* an iteration whose three magnitudes are all at or below their thresholds
\* while the learning step runs
AllFallbacks(s) ==
    /\ s.significant
    /\ Magnitude(BlendOf(s)) <= MIN_FORWARD_MAG
    /\ Magnitude(s.gravity) <= MIN_DIRECTION_MAG
    /\ Magnitude(s.forward) <= MIN_DIRECTION_MAG
    /\ s.total > 0

\* the loop is about to run a learning iteration in which every
\* normalisation has to fall back
C12_Witness == InLoop /\ AllFallbacks(Iteration)

\* gyroData, or a non-empty magData, is shorter than accelData
LengthMismatch ==
    \/ Len(gyroData) < Len(accelData)
    \/ (Len(magData) > 0 /\ Len(magData) < Len(accelData))

\* C13: with a gyro array (or a non-empty mag array) shorter than the accel
\* array the call fails before it processes any sample: it does not return
\* and no per-sample array ever receives an element.
C13_FailsFast ==
    LengthMismatch =>
        /\ pc # "returned"
        /\ \A f \in ArrayFields : Len(result[f]) = 0

\* iteration i up to line 663 when it reads the magnetometer sample m
IterationReading(m) ==
    Averaging(Transforming(Crossing(Framing(Orthogonalizing(Learning(
        Integrating(Rates(Observing(Removing(Tracking(Filtering(
            [Sensed EXCEPT !.mag = m]))))))))))))

\* two iterations record the same elements and leave the same tracker state
SameOutputs(a, b) ==
    /\ pushedBeforeDon(a) = pushedBeforeDon(b)
    /\ filtersAfter(a) = filtersAfter(b)
    /\ a.gravity = b.gravity /\ a.forward = b.forward /\ a.learned = b.learned
    /\ a.total = b.total /\ a.dan = b.dan

\* every element recorded in the channel f is 0
ZeroChannel(f) == \A k \in 1..Len(result[f]) : result[f][k] = 0

\* C14: with an empty mag array (and gyro as long as accel, gps not empty)
\* the call does not throw, the channels magHeading, heading_measured,
\* gyroZ_fromMag and accelY_fromMag are 0 at every sample, and every
\* iteration records what it records when it reads a zero vector from a mag
\* array of N zero vectors.
C14_AbsentMag ==
    Len(magData) = 0 =>
        /\ (Len(gpsData) > 0 /\ Len(gyroData) >= Len(accelData)) => pc # "threw"
        /\ ZeroChannel("magHeading") /\ ZeroChannel("heading_measured")
        /\ ZeroChannel("gyroZ_fromMag") /\ ZeroChannel("accelY_fromMag")
        /\ InLoop => SameOutputs(Iteration,
                                 IterationReading(At(MagSamples("north", i + 1), i)))

\* a call without magnetometer has returned from the longest session, the
\* vehicle moving and the forward direction learned on some samples
C14_Witness ==
    /\ pc = "returned"
    /\ Len(magData) = 0
    /\ Len(result.magHeading) = MaxLen
    /\ \E k \in 1..MaxLen : result.vehicleMoving[k] /\ result.gpsAccelDetected[k]

\* a lies in [-10.8, 4.9]
WithinVehicleLimits(a) == a >= -MAX_BRAKING /\ a <= MAX_ACCELERATION

\* C15: the GPS acceleration that gates the estimators is bounded: every
\* element of the pre-pass array, and virtualForwardAccel[i] = rawGPSAccel[i]
\* at every sample, lies in [-10.8, 4.9].
C15_GpsAccelBounded ==
    /\ WithinVehicleLimits(smoothedAccel)
    /\ \A k \in 1..Len(interpolatedRawGPSAccel) :
          WithinVehicleLimits(interpolatedRawGPSAccel[k])
    /\ \A k \in 1..Len(result.virtualForwardAccel) :
          /\ WithinVehicleLimits(result.virtualForwardAccel[k])
          /\ result.virtualForwardAccel[k] = interpolatedRawGPSAccel[k]
    /\ \A k \in 1..Len(result.rawGPSAccel) :
          result.rawGPSAccel[k] = interpolatedRawGPSAccel[k]

\* a call has returned in which a speed difference above 4.9 m/s^2 was
\* clamped and the smoothed acceleration came within 0.1 m/s^2 of the limit
C15_Witness ==
    /\ pc = "returned"
    /\ \E k \in 1..Len(accelData) :
          /\ gpsAccelAt(interpolatedGPSSmoothed, k - 1, Len(accelData))
                > 2 * MAX_ACCELERATION
          /\ result.virtualForwardAccel[k] > MAX_ACCELERATION - SCALE \div 10
          /\ result.rawGPSAccel[k] = result.virtualForwardAccel[k]

\* the step adds the value v to the session histogram
Adds(v) == fed' = fed + 1 /\ v = sampleOf(feed, fed)

\* C16: addSample(h, v) increments exactly one bin, of index
\* floor(clamp(v, 0, 3.999) / 0.04) within 0..99, by exactly 1, increments
\* totalSamples by 1, leaves the other bins unchanged and sets minDAN and
\* maxDAN to the min and max of their old value and v; v < 0 lands in bin 0
\* and v >= 4.0 in bin 99.
C16_AddSampleFrame ==
    [][ \A v \in {sampleOf(feed, fed)} :
          Adds(v) =>
            /\ \E b \in 0..(NUM_BINS - 1) :
                  /\ b = binIndexOf(v)
                  /\ sessionHistogram'.bins[b] = sessionHistogram.bins[b] + 1
                  /\ \A c \in 0..(NUM_BINS - 1) \ {b} :
                        sessionHistogram'.bins[c] = sessionHistogram.bins[c]
                  /\ v < 0 => b = 0
                  /\ v >= MAX_DAN => b = NUM_BINS - 1
            /\ DOMAIN sessionHistogram'.bins = 0..(NUM_BINS - 1)
            /\ sessionHistogram'.totalSamples = sessionHistogram.totalSamples + 1
            /\ sessionHistogram'.minDAN = Min(sessionHistogram.minDAN, v)
            /\ sessionHistogram'.maxDAN = Max(sessionHistogram.maxDAN, v) ]_vars

\* a session with a value below 0 and two values at and above 4.0 has been
\* added: one sample in bin 0 and two in bin 99
C16_Witness ==
    /\ sessionHistogram.totalSamples = 3
    /\ sessionHistogram.minDAN < 0
    /\ sessionHistogram.maxDAN > MAX_DAN
    /\ sessionHistogram.bins[0] = 1
    /\ sessionHistogram.bins[NUM_BINS - 1] = 2

\* the histograms the page holds, built by addSample and mergeHistogram
Built == { sessionHistogram, cumulative }

\* one value below the range, the lower edge of every bin, and MAX_DAN
Probes == { k * BIN_WIDTH : k \in (-1)..NUM_BINS }

\* C17: getPercentile(h, v) is 50 when h.totalSamples is 0; otherwise it is
\* round(100 * (sum of the bins strictly below v's bin + half of v's own
\* bin) / totalSamples), an integer in [0, 100], for every histogram built
\* by addSample and mergeHistogram.
C17_PercentileFormula ==
    \A h \in Built : \A v \in Probes :
        LET below == samplesBelow(h.bins, binIndexOf(v))
            own   == h.bins[binIndexOf(v)]
        IN  /\ h.totalSamples = 0 => getPercentile(h, v) = 50
            /\ h.totalSamples > 0 =>
                  /\ getPercentile(h, v)
                        = Round(100 * (2 * below + own), 2 * h.totalSamples)
                  /\ getPercentile(h, v) \in 0..100

\* the part of C17 about the empty histogram and the range of the result
PercentileInRange ==
    \A h \in Built : \A v \in Probes :
        /\ h.totalSamples = 0 => getPercentile(h, v) = 50
        /\ getPercentile(h, v) \in 0..100

\* the k-th value of a walk from below the range to above it, in steps of
\* one thousandth less than a bin: it stops in every bin, at every offset
walk(k) == -BIN_WIDTH + k * (BIN_WIDTH - 1)

\* the number of steps that takes the walk past MAX_DAN
WalkSteps == (MAX_DAN + 2 * BIN_WIDTH) \div (BIN_WIDTH - 1) + 1

\* C18: for a fixed histogram h, getPercentile(h, v) is monotonically
\* non-decreasing in v: v1 <= v2 implies
\* getPercentile(h, v1) <= getPercentile(h, v2).  The order of each value of
\* the walk with the next one gives the order of every pair of them.
C18_PercentileMonotone ==
    \A h \in Built :
        LET percentile == [k \in 0..WalkSteps |-> getPercentile(h, walk(k))]
        IN  \A k \in 0..(WalkSteps - 1) : percentile[k] <= percentile[k + 1]

\* four samples a quarter of the range apart: the percentile climbs from 13
\* in the first bin to 100 at the top of the range
C18_Witness ==
    /\ sessionHistogram.totalSamples = 4
    /\ getPercentile(sessionHistogram, -BIN_WIDTH) = 13
    /\ getPercentile(sessionHistogram, 1000) = 38
    /\ getPercentile(sessionHistogram, 3000) = 88
    /\ getPercentile(sessionHistogram, MAX_DAN) = 100

\* the percentiles getStats reports, by field
StatTargets == [p10 |-> 10, p25 |-> 25, p50 |-> 50, p75 |-> 75, p90 |-> 90]

\* value is the midpoint of the first bin at which the cumulative count of h
\* reaches targetPercentile hundredths of totalSamples
FirstBinReaching(h, targetPercentile, value) ==
    LET b == (value - BIN_WIDTH \div 2) \div BIN_WIDTH
    IN  /\ b \in 0..(NUM_BINS - 1)
        /\ 2 * value = (2 * b + 1) * BIN_WIDTH
        /\ samplesBelow(h.bins, b + 1) * 100 >= targetPercentile * h.totalSamples
        /\ samplesBelow(h.bins, b) * 100 < targetPercentile * h.totalSamples

\* every field of getStats(h) is the midpoint of the first bin that reaches
\* its target
MidpointStats(h) ==
    \A field \in DOMAIN StatTargets :
        FirstBinReaching(h, StatTargets[field], getStats(h)[field])

\* the session is complete: the histogram holds the whole evenly spaced set
SessionComplete == fed = feed.count /\ feed.count > 0

\* twice the median of the evenly spaced set: the middle value of an odd
\* number of samples, the mean of the two middle values of an even number
twiceMedian(f) == 2 * f.first + f.step * (f.count - 1)

\* p50 of the session histogram is within one bin width of the median
MedianWithinBin ==
    Abs(2 * getStats(sessionHistogram).p50 - twiceMedian(feed)) <= 2 * BIN_WIDTH

\* C19 as stated: getStats(h) returns for each of p10, p25, p50, p75, p90 the
\* midpoint (i + 0.5) * 0.04 of the first bin i at which the cumulative
\* count reaches the target fraction of totalSamples, and for a histogram
\* built from a uniformly spread sample set p50 is within one bin width of
\* the true median of the samples.
C19_StatsAsStated ==
    /\ \A h \in Built : h.totalSamples > 0 => MidpointStats(h)
    /\ SessionComplete => MedianWithinBin

\* the samples lie in the range of the bins, and either their number is odd
\* or they are at most one bin width apart
DenseOrOdd(f) ==
    /\ f.first >= 0
    /\ f.first + f.step * (f.count - 1) < MAX_DAN
    /\ f.step <= BIN_WIDTH \/ f.count % 2 = 1

\* C19 amended: for a histogram with samples, getStats returns for each
\* percentile the midpoint of the first bin at which the cumulative count
\* reaches the target fraction (and all zeros for one without samples); p50
\* is within one bin width of the median of evenly spaced samples inside
\* [0, 4.0) when their number is odd or their spacing is at most one bin
\* width.  For an even number of samples further apart, p50 is the midpoint
\* of the bin of the lower of the two middle samples.
C19_StatsOfEvenlySpaced ==
    /\ \A h \in Built :
          IF h.totalSamples > 0 THEN MidpointStats(h)
          ELSE \A field \in DOMAIN StatTargets : getStats(h)[field] = 0
    /\ SessionComplete /\ DenseOrOdd(feed) => MedianWithinBin
    /\ SessionComplete /\ feed.first >= 0 /\ feed.count % 2 = 0
          /\ feed.first + feed.step * (feed.count - 1) < MAX_DAN
          => getStats(sessionHistogram).p50
               = binMidpoint(binIndexOf(sampleOf(feed, feed.count \div 2 - 1)))

\* the session of one hundred samples one bin apart is complete: the tenth,
\* the median and the ninetieth percentile are the midpoints of bins 9, 49
\* and 89, and the median of the samples is that of bin 49
C19_Witness ==
    /\ SessionComplete
    /\ feed.count = 100
    /\ DenseOrOdd(feed)
    /\ getStats(sessionHistogram).p10 = 380
    /\ getStats(sessionHistogram).p50 = 1980
    /\ getStats(sessionHistogram).p90 = 3580
    /\ twiceMedian(feed) = 2 * 1980

\* a persistent histogram holding one session: the first merge of the page
persisted(histogram) == mergeHistogram(createPersistentHistogram, histogram)

\* the empty persistent histogram and those of the short sessions
Thirds ==
    { createPersistentHistogram }
      \cup { persisted(filled(createHistogram, f, 0)) :
                f \in { g \in Feeds : g.count <= 5 } }

\* the fields the claim compares: all but sessionCount
SameContents(x, y) ==
    /\ x.bins = y.bins
    /\ x.totalSamples = y.totalSamples
    /\ x.minDAN = y.minDAN
    /\ x.maxDAN = y.maxDAN

\* (A merge B) merge C against A merge (B merge C)
Associates(A, B, C) ==
    SameContents(mergeHistogram(mergeHistogram(A, B), C),
                 mergeHistogram(A, mergeHistogram(B, C)))

\* C20: mergeHistogram is associative: for any three histograms A, B, C the
\* bins, totalSamples, minDAN and maxDAN of (A merge B) merge C equal those
\* of A merge (B merge C), element-wise.  The three are the cumulative
\* histogram, the session and a third one, in every order.
C20_MergeAssociative ==
    \A third \in Thirds :
        LET session == persisted(sessionHistogram)
        IN  /\ Associates(cumulative, session, third)
            /\ Associates(cumulative, third, session)
            /\ Associates(session, cumulative, third)
            /\ Associates(session, third, cumulative)
            /\ Associates(third, cumulative, session)
            /\ Associates(third, session, cumulative)

\* the cumulative histogram and the session both hold samples, with
\* different extremes, and a third histogram differs from both
C20_Witness ==
    /\ cumulative.totalSamples > 0
    /\ sessionHistogram.totalSamples > 0
    /\ sessionHistogram.minDAN < cumulative.minDAN
    /\ sessionHistogram.maxDAN > cumulative.maxDAN
    /\ \E third \in Thirds :
          /\ third.totalSamples > 0
          /\ third.bins # cumulative.bins
          /\ third.bins # sessionHistogram.bins
          /\ mergeHistogram(mergeHistogram(cumulative,
                                           persisted(sessionHistogram)),
                            third).totalSamples
               = cumulative.totalSamples + sessionHistogram.totalSamples
                   + third.totalSamples

\* C21: mergeHistogram(target, source) never shrinks the target: afterwards
\* every target bin is its old value plus the source bin, totalSamples is
\* old + source.totalSamples, minDAN <= old minDAN, maxDAN >= old maxDAN,
\* sessionCount is old + 1, and the source histogram is unchanged.
C21_MergeNeverShrinks ==
    [][ cumulative' # cumulative =>
          /\ DOMAIN cumulative'.bins = 0..(NUM_BINS - 1)
          /\ \A b \in 0..(NUM_BINS - 1) :
                /\ cumulative'.bins[b]
                      = cumulative.bins[b] + sessionHistogram.bins[b]
                /\ cumulative'.bins[b] >= cumulative.bins[b]
          /\ cumulative'.totalSamples
                = cumulative.totalSamples + sessionHistogram.totalSamples
          /\ cumulative'.minDAN <= cumulative.minDAN
          /\ cumulative'.maxDAN >= cumulative.maxDAN
          /\ cumulative'.sessionCount = cumulative.sessionCount + 1
          /\ sessionHistogram' = sessionHistogram ]_vars

\* a session of four samples inside the range was merged into a cumulative
\* histogram that held three samples reaching from -0.5 to 8.5: the extremes
\* stayed where they were
C21_Witness ==
    /\ cumulative.sessionCount = 2
    /\ cumulative.totalSamples = 7
    /\ cumulative.minDAN = -500
    /\ cumulative.maxDAN = 8500
    /\ fed = feed.count
    /\ sessionHistogram.totalSamples = 4
    /\ sessionHistogram.minDAN = 0

\* C27: starting from createHistogram() or createPersistentHistogram(), after
\* any sequence of addSample and mergeHistogram calls the histogram has
\* exactly 100 bins, every bin is a non-negative integer, and totalSamples
\* equals the sum of all bins.
C27_Conservation ==
    \A h \in Built :
        /\ DOMAIN h.bins = 0..99
        /\ \A b \in DOMAIN h.bins : h.bins[b] \in Nat
        /\ h.totalSamples = samplesBelow(h.bins, NUM_BINS)

\* a session of one hundred samples and one with samples clamped into the
\* first and the last bin are both counted in the cumulative histogram, and
\* a further session is complete
C27_Witness ==
    /\ cumulative.sessionCount = 2
    /\ cumulative.totalSamples = 103
    /\ cumulative.bins[0] = 2
    /\ cumulative.bins[NUM_BINS - 1] = 3
    /\ sessionHistogram.totalSamples = 100
    /\ sessionHistogram.bins[NUM_BINS - 1] = 1

\* sessionCount of the stored histogram, 0 without one
persistedSessionCount ==
    IF localStorage.danHistogram = << >> THEN 0
    ELSE localStorage.danHistogram[1].sessionCount

\* the tab runs no effect, or is about to start one
BetweenRuns(t) == tab[t].pc \in { "idle", "effect" }

\* C22: over any sequence of runs of the merge effect in a single tab,
\* re-runs for the same sessionId after a tuning change or a reload
\* included, each sessionId is merged into the persisted cumulative
\* histogram at most once, and between runs the persisted sessionCount
\* equals the number of IDs in the included-sessions set.
C22_NoDoubleMerge ==
    /\ \A sessionId \in SessionIds : merged[sessionId] <= 1
    /\ BetweenRuns("a") =>
          persistedSessionCount = Cardinality(getIncludedSessions)

\* the effect ran again for session s1, already merged, with a histogram
\* that has segments, found it included and stopped; two sessions are stored
C22_Witness ==
    /\ tab["a"].pc = "idle"
    /\ tab["a"].sessionId = "s1"
    /\ tab["a"].sessionHistogram # << >>
    /\ "s1" \in tab["a"].includedSessions
    /\ tab["a"].cumulative = << >>
    /\ merged["s1"] = 1
    /\ persistedSessionCount = 2
    /\ Cardinality(getIncludedSessions) = 2

\* every tab has finished its effect
AllFinished == \A t \in Tabs : tab[t].pc = "idle"

\* the stored histogram counts the samples of the sessions of both tabs
BothCounted ==
    /\ localStorage.danHistogram # << >>
    /\ localStorage.danHistogram[1].totalSamples
          = tab["a"].sessionHistogram[1].totalSamples
              + tab["b"].sessionHistogram[1].totalSamples
    /\ localStorage.danHistogram[1].sessionCount = 2

\* every session marked included has its samples in the stored histogram
IncludedAreStored ==
    \A sessionId \in getIncludedSessions : merged[sessionId] >= 1

\* C28: for any interleaving of two tabs running the merge effect for two
\* different sessions, once both have finished every session ID in the
\* included-sessions set has its samples counted in the persisted histogram
\* (persisted totalSamples is the sum of both sessions' sample counts and
\* sessionCount is 2), and a session is never marked included while its
\* merge is absent from storage.
C28_CrossTabConsistency ==
    /\ AllFinished => IncludedAreStored /\ BothCounted
    /\ IncludedAreStored

\* the part of C28 about the state once both tabs have finished
FinishedConsistent == AllFinished => IncludedAreStored /\ BothCounted

\* the cell has an entry in the database
Stored(geohash) == potholes[geohash] # << >>

\* confidence <= 1.0
AtMostFull(confidence) ==
    confidence.tenths < 10 \/ confidence = FullConfidence

\* C29: a detected hit sets the cell's confidence to 1.0; each clean pass
\* lowers it by 0.1 and never below 0; a pothole is removed exactly on the
\* 10th consecutive clean pass after a hit, and a hit before that resets the
\* count so that 10 further clean passes are again required; a stored
\* pothole always has 0 < confidence <= 1.0.
C29_ConfidenceLifecycle ==
    \A geohash \in Cells :
        /\ Stored(geohash) =>
              /\ sinceHit[geohash] \in 0..9
              /\ potholes[geohash][1].confidence.tenths = 10 - sinceHit[geohash]
              /\ sinceHit[geohash] = 0 =>
                    potholes[geohash][1].confidence = FullConfidence
              /\ positive(potholes[geohash][1].confidence)
              /\ AtMostFull(potholes[geohash][1].confidence)
        /\ ~ Stored(geohash) => sinceHit[geohash] \in { -1, 10 }

\* what the code does: the entry outlives the 10th clean pass with a
\* confidence of 1.3877787807814457e-16 and is removed on the 11th
RemovedOnEleventh ==
    \A geohash \in Cells :
        /\ Stored(geohash) =>
              /\ sinceHit[geohash] \in 0..10
              /\ potholes[geohash][1].confidence.tenths = 10 - sinceHit[geohash]
              /\ sinceHit[geohash] = 0 =>
                    potholes[geohash][1].confidence = FullConfidence
              /\ positive(potholes[geohash][1].confidence)
              /\ AtMostFull(potholes[geohash][1].confidence)
        /\ ~ Stored(geohash) => sinceHit[geohash] \in { -1, 11 }

\* the raw headings read so far, and ten times the magHeading channel
RawHeadings == [k \in 1..i |-> magData[k].x]
Unwrapped == [k \in 1..Len(result.magHeading) |-> result.magHeading[k] * 10]

\* C30: for any sequence of raw compass headings in [0, 360), the unwrapped
\* heading of the loop (magHeading[i] * 10) starts at raw[0], is congruent
\* to raw[i] modulo 360, moves by at most 180 from one sample to the next,
\* and equals the output of helpers.unwrapAngles on the same sequence.
C30_HeadingUnwrapped ==
    /\ Len(result.magHeading) = i
    /\ i >= 1 => Unwrapped[1] = RawHeadings[1]
    /\ \A k \in 1..i : (Unwrapped[k] - RawHeadings[k]) % (360 * SCALE) = 0
    /\ \A k \in 2..i : Abs(Unwrapped[k] - Unwrapped[k - 1]) <= 180 * SCALE
    /\ Unwrapped = unwrapAngles(RawHeadings)

\* the compass went from 359 over north to 0 and back over north to 270 and
\* 180: the unwrapped heading is 359, 360, 270, 180
C30_Witness ==
    /\ i = 4
    /\ RawHeadings = << 359 * SCALE, 0, 270 * SCALE, 180 * SCALE >>
    /\ Unwrapped = << 359 * SCALE, 360 * SCALE, 270 * SCALE, 180 * SCALE >>

\* the linear blend of gps[floor(r)] and gps[min(floor(r) + 1, len - 1)] with
\* weight r - floor(r), r = (k / n) * len, in one field (k from 0)
LinearBlend(gps, n, k, field) ==
    LET prevIndex == (k * Len(gps)) \div n
        nextIndex == Min(prevIndex + 1, Len(gps) - 1)
        prev      == At(gps, prevIndex)[field]
        next      == At(gps, nextIndex)[field]
    IN  IF prevIndex = nextIndex THEN prev
        ELSE prev + MulDiv(next - prev, (k * Len(gps)) % n, n)

\* interpolatedGPS holds the blend in the given fields, and zeros for an
\* empty gps array
BlendedIn(fields) ==
    LET n == Len(accelData)
    IN  Len(interpolatedGPS) = n =>
          \A k \in 0..(n - 1) : \A field \in fields :
              At(interpolatedGPS, k)[field]
                = IF Len(gpsData) = 0 THEN 0
                  ELSE LinearBlend(gpsData, n, k, field)

\* the timestamp of every emitted segment lies between the timestamps of
\* two neighbouring fixes
SegmentsBetweenFixes ==
    \A q \in 1..Len(result.roadDANSegments) :
        \E j \in 1..Len(gpsData) :
            /\ gpsData[j].timestamp <= result.roadDANSegments[q].timestamp
            /\ result.roadDANSegments[q].timestamp
                  <= gpsData[Min(j + 1, Len(gpsData))].timestamp

\* C26: for non-empty gps and every target index i in 0..N-1, every field of
\* interpolatedGPS[i], speed (mps, mph, kph), lat, lng and timestamp, is the
\* linear blend of gps[floor(r)] and gps[min(floor(r) + 1, len - 1)] with
\* weight r - floor(r), r = (i / N) * gps.length, so the timestamp of an
\* emitted RoadDANSegment lies between the timestamps of the two
\* surrounding fixes; for empty gps every field is 0.
C26_ResamplerBlend ==
    /\ BlendedIn({ "mps", "mph", "kph", "lat", "lng", "timestamp" })
    /\ SegmentsBetweenFixes

\* the part of C26 that holds: the speeds and the position
SpeedAndPositionBlended == BlendedIn({ "mps", "mph", "kph", "lat", "lng" })

\* alpha * forward + (1 - alpha) * sign * (accel - gravity) on one axis
SignedAxis(f, sign, accel, g) == (alpha * f + (SCALE - alpha) * (accel - g) * sign) \div SCALE

\* the signed accumulation of iteration i, sign taken from the GPS acceleration
SignedAccumulation(s, sign) ==
    Vec(SignedAxis(forward.x, sign, s.accel.x, s.gravity.x),
        SignedAxis(forward.y, sign, s.accel.y, s.gravity.y),
        SignedAxis(forward.z, sign, s.accel.z, s.gravity.z))

\* v brought to unit length when its magnitude exceeds the threshold of the
\* learning step
Renormalized(v) ==
    IF Magnitude(v) > MIN_FORWARD_MAG THEN Normalized(v, Magnitude(v)) ELSE v

\* the learning step of iteration i accumulates the signed linear
\* acceleration and renormalises it; an event of the opposite sign with the
\* opposite linear acceleration accumulates the same vector
SignedLearning(s) ==
    LET sign == IF s.virtualForwardAccel > 0 THEN 1 ELSE -1
        opposite == [accel |-> VecSub(VecSub(s.gravity, s.accel), VecSub(ZeroVec, s.gravity)),
                     gravity |-> s.gravity]
    IN  /\ s.learned = Renormalized(SignedAccumulation(s, sign))
        /\ s.total = totalForwardUpdates + 1
        /\ SignedAccumulation(opposite, -sign) = SignedAccumulation(s, sign)
        /\ forwardBlend(forward, -s.virtualForwardAccel, alpha,
                        VecSub(ZeroVec, s.linearAccel))
               = forwardBlend(forward, s.virtualForwardAccel, alpha, s.linearAccel)

\* C25: forward learning uses the signed linear acceleration: on a sample
\* with significantAccel the learning step accumulates
\* alpha * forward + (1 - alpha) * sign * (accel - gravity), sign being +1
\* for a positive and -1 for a negative GPS acceleration, so that braking
\* with linear acceleration a and speeding up with -a accumulate the same
\* vector; on a sample without significantAccel the step leaves forward as
\* it is.
C25_SignedForwardLearning ==
    InLoop =>
        IF Iteration.significant
        THEN SignedLearning(Iteration)
        ELSE Iteration.learned = forward /\ Iteration.total = totalForwardUpdates

\* the loop is about to learn from a braking sample whose linear
\* acceleration is not zero, after having learned from a speeding-up sample
C25_Witness ==
    /\ InLoop
    /\ Iteration.significant
    /\ Iteration.virtualForwardAccel < 0
    /\ Iteration.linearAccel # ZeroVec
    /\ Iteration.learned # forward
    /\ totalForwardUpdates > 0

\* what iteration i hands to gravityHistory, forwardHistory,
\* gpsAccelDetected, transformed, danX, roadDAN and roadDANSegments, and the
\* state the gravity and forward updates of the next iteration start from
TrackerPart(s) ==
    [accelFiltered |-> s.accelFiltered,
     gpsAccelDetected |-> s.significant,
     gravity |-> s.gravity,
     learned |-> s.learned,
     total |-> s.total,
     forward |-> s.forward,
     transformed |-> s.transformed,
     danX |-> s.danX,
     dan |-> s.dan,
     segments |-> resultBeforeDon(s).roadDANSegments]

\* the same values computed from the accelerometer sample, the GPS pre-pass
\* and the tracker's own state alone: lines 250-262, 274-291, 512-552,
\* 564-663 without any read of gyroData, magData, observerAlpha, the
\* observer bank, the display EMA or confidence
TrackerAlone ==
    LET accel == At(accelData, i)
        gps == At(interpolatedGPS, i)
        virtualForwardAccel == At(interpolatedRawGPSAccel, i)
        accelFiltered == VecEma(alpha, filters.accelFiltered, accel)
        significant == significantAccel(virtualForwardAccel)
        g == gravityTracking(gravity, significant, alpha, accelFiltered)
        linearAccel == VecSub(accel, g)
        learned == forwardLearning(forward, significant, virtualForwardAccel, alpha,
                                   linearAccel)
        total == forwardUpdates(totalForwardUpdates, significant)
        f == orthogonalize(learned, g, total)
        down == downOf(g)
        forwardDir == forwardDirOf(f)
        lateral == lateralOf(forwardDir, down)
        danX == decayedRms(i, danDecay, result.danX, accel, accelFiltered)
        dan == roadAverage(i, result.danAccumulator, result.danSampleCount, danX,
                           result.roadDAN)
    IN  [accelFiltered |-> accelFiltered,
         gpsAccelDetected |-> significant,
         gravity |-> g,
         learned |-> learned,
         total |-> total,
         forward |-> f,
         transformed |-> transformedOf(linearAccel, forwardDir, lateral, down,
                                       accel.timestamp),
         danX |-> danX,
         dan |-> dan,
         segments |-> IF dan.boundary /\ hasFix(gps)
                      THEN Append(result.roadDANSegments, segmentOf(gps, dan.push))
                      ELSE result.roadDANSegments]

\* the elements the completed iterations have recorded in the seven channels
\* are those the tracker's state carries
RecordedFromTracker ==
    LET n == Len(result.gravityHistory)
    IN  /\ Len(result.forwardHistory) = n /\ Len(result.gpsAccelDetected) = n
        /\ n > 0 =>
              /\ result.gravityHistory[n] = gravity @@ [timestamp |-> At(accelData, n - 1).timestamp]
              /\ result.forwardHistory[n] = forward @@ [timestamp |-> At(accelData, n - 1).timestamp]

\* C24: diagnostic channels do not feed back into the tracker. What an
\* iteration contributes to gravityHistory, forwardHistory, gpsAccelDetected,
\* transformed, danX, roadDAN and roadDANSegments, and the state it leaves
\* to the gravity and forward updates, is a function of the accelerometer
\* sample, the GPS pre-pass and that state alone; so two runs that differ
\* only in observerAlpha, in the mag array or in the gyro array record the
\* same seven channels (a call that has thrown returns no channels).
C24_NoFeedback ==
    /\ InLoop => TrackerPart(Iteration) = TrackerAlone
    /\ pc # "threw" => RecordedFromTracker

\* the loop is about to run a learning iteration past the first segment
\* boundary with a turning gyroscope, a wrapping compass, a filled observer
\* bank and an observerAlpha that is not the default
C24_Witness ==
    /\ InLoop
    /\ i > 60
    /\ observerAlpha # DefaultObserverAlpha
    /\ Iteration.gyro # ZeroVec
    /\ Iteration.mag # ZeroVec
    /\ filters.filteredGyro # ZeroVec
    /\ filters.filteredLinearAccel # ZeroVec
    /\ Iteration.significant
    /\ Iteration.learned # forward
    /\ Len(result.roadDANSegments) > 0

\* the arrays the caller passed are the arrays the call reads: no step has
\* replaced an array or changed an element
ArgumentsIntact == given = << accelData, gyroData, magData, gpsData >>

\* a call starts from the state lines 53-133 construct, whatever the calls
\* before it left behind
StartsFresh ==
    pc = "start" =>
        /\ result = EmptyResult
        /\ tracker = << ZeroVec, ZeroVec, ZeroVec, 0, InitialFilters >>
        /\ i = 0 /\ smoothedAccel = 0 /\ steppedRawGPS = << >>

\* the call that has ended gave its caller what every earlier call with
\* equal arguments gave
SameAsBefore ==
    pc \in { "returned", "threw" } =>
        \A k \in 1..Len(earlier) :
            earlier[k].inputs = inputs => earlier[k].outcome = Outcome

\* C23: the pipeline is stateless between invocations and pure: a call
\* starts from freshly constructed state, its outcome equals that of every
\* earlier call with equal inputs, whatever calls on other sessions ran in
\* between, and it leaves its accel, gyro, mag and gps arrays and their
\* elements as the caller passed them.
C23_PureAndStateless == ArgumentsIntact /\ StartsFresh /\ SameAsBefore

\* a session has been processed, then another one, then the first one
\* again; all three calls returned, with gravity and forward learned
C23_Witness ==
    /\ pc = "returned"
    /\ Len(earlier) = 2
    /\ earlier[1].inputs = inputs
    /\ earlier[2].inputs # inputs
    /\ earlier[2].outcome[1] = "returned"
    /\ Len(result.transformed) = 61
    /\ gravity # ZeroVec /\ totalForwardUpdates > 0

====
